---- MODULE Spec2Model ----
(***************************************************************************)
(* macos-persist-scan: the scan orchestrator (pkg/scanner, Orchestrator),  *)
(* the risk engine (pkg/risk, Engine) and the scan command that drives     *)
(* them (cmd/macos-persist-scan, runScan).                                 *)
(*                                                                         *)
(* Specifications:                                                         *)
(*   Spec         - Orchestrator.RunScan called on any probe collection,   *)
(*                  in either mode, with a live or a cancelled ctx;        *)
(*   SpecLive     - Spec with the scheduler's fairness;                    *)
(*   SpecRisk     - Engine.AssessRisk applied to the verdicts the          *)
(*                  engine's heuristics return for one entry;              *)
(*   SpecTier     - scoreToRiskLevel on a grid of scores;                  *)
(*   SpecSort     - AssessRisk on an engine of more than 12 heuristics;    *)
(*   SpecBehavior - AssessRisk with the behavior heuristic on decoded      *)
(*                  launchd entries, at several times of call;             *)
(*   SpecCalls    - two AssessRisk calls interleaved on one engine;        *)
(*   SpecShipped  - AssessRisk with the four shipped heuristics;           *)
(*   SpecCLI      - the scan command: RunScan, AssessRisk per entry,       *)
(*                  summary rendering and exit status.                     *)
(*                                                                         *)
(* Wall-clock fields (StartTime, EndTime, Duration, ScanError.Timestamp)   *)
(* are not modelled: no control flow reads them.                           *)
(***************************************************************************)
EXTENDS Integers, Sequences, FiniteSets, TLC

VARIABLES
    scanners,    \* o.scanners: the Type() of each probe, in collection order
    parallel,    \* o.parallel
    ctxDone,     \* whether the ctx handed to RunScan is already cancelled
    outcome,     \* what each probe's Scan() returns: [items, err]
    pc,          \* position of the RunScan call
    idx,         \* index of the range loop over o.scanners
    gpc,         \* position of each probe goroutine (concurrent mode)
    gItems,      \* goroutine local: items
    gErr,        \* goroutine local: err
    gAppended,   \* goroutine: the slice append(...) returned, not yet assigned
    calls,       \* number of times each probe's Scan() has been invoked
    mu,          \* sync.Mutex: 0 when free, else the goroutine holding it
    wg,          \* sync.WaitGroup counter
    allItems,    \* RunScan local
    allErrors,   \* RunScan local
    result,      \* the *ScanResult
    retErr,      \* the error RunScan returns
    fused,       \* whether the build fuses x*y + z into one rounding
    verdicts,    \* what h.Analyze(item) returns, for each h of e.heuristics
    assessment,  \* the RiskAssessment AssessRisk returns
    riskPc,      \* position of the AssessRisk call
    mainPc,      \* position of the scan command
    ai,          \* index of the range loop over result.Items in runScan
    output,      \* the risk summary lines the formatter writes
    exitCode,    \* the status the process exits with
    tierScores,  \* the scores handed to scoreToRiskLevel, call by call
    tierLevels,  \* the tiers scoreToRiskLevel has returned so far
    entry,       \* the entry a launchd probe produced
    now,         \* the wall clock time.Since reads, in hours
    analyzed,    \* what BehaviorHeuristic.Analyze did, call by call
    assessed,    \* what AssessRisk did on the entry, call by call
    heuristics,  \* e.heuristics: the Name() of the engine's heuristics
    callVerdicts, \* concurrent callers: what h.Analyze returns for each one's entry
    callPc,      \* position of each concurrent AssessRisk call
    callIdx,     \* index each call's range loop over e.heuristics is at
    callFrame,   \* the local variables of AssessRisk, frame by frame
    callResult   \* the RiskAssessment each call returned

scanVars == <<scanners, parallel, ctxDone, outcome, pc, idx, gpc, gItems,
              gErr, gAppended, calls, mu, wg, allItems, allErrors, result,
              retErr>>
riskVars == <<verdicts, assessment, riskPc>>
cliVars == <<mainPc, ai, output, exitCode>>
tierVars == <<tierScores, tierLevels>>
behaviorVars == <<entry, now, analyzed, assessed, heuristics>>
callVars == <<callVerdicts, callPc, callIdx, callFrame, callResult>>
unitVars == <<tierVars, behaviorVars, callVars>>
vars == <<scanVars, fused, riskVars, cliVars, unitVars>>

----------------------------------------------------------------------------
(* Bounds of the model *)

NumProbes == 2
MaxItems == 2
CliMaxItems == 1
MaxHeuristics == 2
MaxTriggered == 2
MaxTicks == 2

----------------------------------------------------------------------------
(* float64 arithmetic: the type of Score and Confidence.                   *)
(* A finite non-negative float64 is m * 2^e with m = 0 or 2^52 <= m < 2^53;*)
(* m is held as a little-endian sequence of limbs below 2^LimbBits, since  *)
(* it does not fit a machine integer of the checker.  Every operation      *)
(* computes the exact result and rounds it to nearest, ties to even, as    *)
(* IEEE 754 binary64 does.  Scores and confidences are non-negative and    *)
(* far from the subnormal and overflow ranges, so sign, subnormals and     *)
(* overflow are left out; NaN and +Inf are kept (0/0 and x/0).             *)

LimbBits == 14
MantBits == 53
Base == 2^LimbBits

RECURSIVE BigTrim(_)
BigTrim(a) ==
    IF a # <<>> /\ a[Len(a)] = 0 THEN BigTrim(SubSeq(a, 1, Len(a) - 1)) ELSE a

RECURSIVE BigFromInt(_)
BigFromInt(n) ==
    IF n = 0 THEN <<>> ELSE <<n % Base>> \o BigFromInt(n \div Base)

RECURSIVE BigAddC(_, _, _)
BigAddC(a, b, c) ==
    IF a = <<>> /\ b = <<>> THEN (IF c = 0 THEN <<>> ELSE <<c>>)
    ELSE LET x == (IF a = <<>> THEN 0 ELSE Head(a))
                  + (IF b = <<>> THEN 0 ELSE Head(b)) + c
         IN  <<x % Base>> \o BigAddC(IF a = <<>> THEN a ELSE Tail(a),
                                     IF b = <<>> THEN b ELSE Tail(b),
                                     x \div Base)

BigAdd(a, b) == BigAddC(a, b, 0)

RECURSIVE BigSubB(_, _, _)
\* a - b - c for a >= b + c
BigSubB(a, b, c) ==
    IF a = <<>> THEN <<>>
    ELSE LET x == Head(a) - (IF b = <<>> THEN 0 ELSE Head(b)) - c
         IN  <<x % Base>> \o BigSubB(Tail(a),
                                     IF b = <<>> THEN b ELSE Tail(b),
                                     IF x < 0 THEN 1 ELSE 0)

BigSub(a, b) == BigTrim(BigSubB(a, b, 0))

RECURSIVE BigCmpAt(_, _, _)
BigCmpAt(a, b, i) ==
    IF i = 0 THEN 0
    ELSE IF a[i] < b[i] THEN -1
    ELSE IF a[i] > b[i] THEN 1
    ELSE BigCmpAt(a, b, i - 1)

\* -1, 0, 1 as a < b, a = b, a > b
BigCmp(a, b) ==
    IF Len(a) < Len(b) THEN -1
    ELSE IF Len(a) > Len(b) THEN 1
    ELSE BigCmpAt(a, b, Len(a))

RECURSIVE BigMulSmallC(_, _, _)
BigMulSmallC(a, k, c) ==
    IF a = <<>> THEN (IF c = 0 THEN <<>> ELSE <<c>>)
    ELSE LET x == Head(a) * k + c
         IN  <<x % Base>> \o BigMulSmallC(Tail(a), k, x \div Base)

BigMulSmall(a, k) == IF k = 0 THEN <<>> ELSE BigMulSmallC(a, k, 0)

RECURSIVE BigMul(_, _)
BigMul(a, b) ==
    IF a = <<>> \/ b = <<>> THEN <<>>
    ELSE BigTrim(BigAdd(BigMulSmall(a, Head(b)), <<0>> \o BigMul(a, Tail(b))))

\* a * 2^n
BigShl(a, n) ==
    IF a = <<>> THEN <<>>
    ELSE [i \in 1..(n \div LimbBits) |-> 0] \o BigMulSmall(a, 2^(n % LimbBits))

\* floor(a / 2^n)
BigShr(a, n) ==
    LET d == n \div LimbBits
        s == n % LimbBits
        len == Len(a) - d
    IN  IF len <= 0 THEN <<>>
        ELSE BigTrim([i \in 1..len |->
                 (a[i + d] \div 2^s)
                 + (IF i + d < Len(a) THEN (a[i + d + 1] % 2^s) * 2^(LimbBits - s)
                    ELSE 0)])

RECURSIVE BitLenSmall(_)
BitLenSmall(x) == IF x = 0 THEN 0 ELSE 1 + BitLenSmall(x \div 2)

BigBitLen(a) ==
    IF a = <<>> THEN 0 ELSE LimbBits * (Len(a) - 1) + BitLenSmall(a[Len(a)])

BigOdd(a) == a # <<>> /\ a[1] % 2 = 1

BigOne == <<1>>

NaN == [cls |-> "nan", m |-> <<>>, e |-> 0]
Inf == [cls |-> "inf", m |-> <<>>, e |-> 0]
FZero == [cls |-> "num", m |-> <<>>, e |-> 0]

\* The float64 nearest to m * 2^e (ties to even); sticky says that the exact
\* value lies strictly above m * 2^e and below (m + 1) * 2^e.
FRound(m, e, sticky) ==
    LET n == BigBitLen(m)
    IN  IF n = 0 THEN FZero
        ELSE IF n <= MantBits
        THEN [cls |-> "num", m |-> BigShl(m, MantBits - n), e |-> e - (MantBits - n)]
        ELSE LET sh == n - MantBits
                 q == BigShr(m, sh)
                 rem == BigSub(m, BigShl(q, sh))
                 c == BigCmp(rem, BigShl(BigOne, sh - 1))
                 up == c > 0 \/ (c = 0 /\ (sticky \/ BigOdd(q)))
                 q1 == IF up THEN BigAdd(q, BigOne) ELSE q
             IN  IF BigBitLen(q1) > MantBits
                 THEN [cls |-> "num", m |-> BigShr(q1, 1), e |-> e + sh + 1]
                 ELSE [cls |-> "num", m |-> q1, e |-> e + sh]

\* float64(n) for an int n >= 0
FInt(n) == FRound(BigFromInt(n), 0, FALSE)

\* a + b
FAdd(a, b) ==
    IF a.cls = "nan" \/ b.cls = "nan" THEN NaN
    ELSE IF a.cls = "inf" \/ b.cls = "inf" THEN Inf
    ELSE IF a.m = <<>> THEN b
    ELSE IF b.m = <<>> THEN a
    ELSE LET e == IF a.e < b.e THEN a.e ELSE b.e
         IN  FRound(BigAdd(BigShl(a.m, a.e - e), BigShl(b.m, b.e - e)), e, FALSE)

\* a * b
FMul(a, b) ==
    IF a.cls = "nan" \/ b.cls = "nan" THEN NaN
    ELSE IF a.cls = "inf" \/ b.cls = "inf"
    THEN (IF (a.cls = "num" /\ a.m = <<>>) \/ (b.cls = "num" /\ b.m = <<>>)
          THEN NaN ELSE Inf)
    ELSE IF a.m = <<>> \/ b.m = <<>> THEN FZero
    ELSE FRound(BigMul(a.m, b.m), a.e + b.e, FALSE)

RECURSIVE DivBits(_, _, _)
\* k steps of restoring division from st = [q, r]: started from q = 0 and
\* r = r0 < 2 * d they end with q = floor(r0 * 2^(k-1) / d), and with r = 0
\* iff the division is exact
DivBits(st, d, k) ==
    IF k = 0 THEN st
    ELSE IF BigCmp(st.r, d) >= 0
    THEN DivBits([q |-> BigAdd(BigShl(st.q, 1), BigOne),
                  r |-> BigShl(BigSub(st.r, d), 1)], d, k - 1)
    ELSE DivBits([q |-> BigShl(st.q, 1), r |-> BigShl(st.r, 1)], d, k - 1)

\* a / b
FDiv(a, b) ==
    IF a.cls = "nan" \/ b.cls = "nan" THEN NaN
    ELSE IF a.cls = "inf" THEN (IF b.cls = "inf" THEN NaN ELSE Inf)
    ELSE IF b.cls = "inf" THEN FZero
    ELSE IF b.m = <<>> THEN (IF a.m = <<>> THEN NaN ELSE Inf)
    ELSE IF a.m = <<>> THEN FZero
    ELSE LET k == MantBits + 3
             d == DivBits([q |-> <<>>, r |-> a.m], b.m, k)
         IN  FRound(d.q, a.e - b.e - (k - 1), d.r # <<>>)

\* -1, 0, 1 as a < b, a = b, a > b, for a and b not NaN
FCmp(a, b) ==
    IF a.cls = "inf" THEN (IF b.cls = "inf" THEN 0 ELSE 1)
    ELSE IF b.cls = "inf" THEN -1
    ELSE IF a.m = <<>> THEN (IF b.m = <<>> THEN 0 ELSE -1)
    ELSE IF b.m = <<>> THEN 1
    ELSE IF a.e = b.e THEN BigCmp(a.m, b.m)
    ELSE IF a.e < b.e THEN -1
    ELSE 1

\* a >= b, a > b: false when either is NaN
FGeq(a, b) == a.cls # "nan" /\ b.cls # "nan" /\ FCmp(a, b) >= 0
FGt(a, b) == a.cls # "nan" /\ b.cls # "nan" /\ FCmp(a, b) > 0

\* math.Min(a, b)
FMin(a, b) ==
    IF a.cls = "nan" \/ b.cls = "nan" THEN NaN
    ELSE IF FCmp(a, b) <= 0 THEN a ELSE b

\* The float64 a decimal literal p/q denotes: the nearest to the quotient.
FLit(p, q) == FDiv(FInt(p), FInt(q))

----------------------------------------------------------------------------
(* Data types *)

Nil == "nil"

Mechanisms ==
    <<"LaunchAgent", "LaunchDaemon", "LoginItem", "ConfigurationProfile",
      "CronJob", "PeriodicScript", "LoginHook", "LogoutHook">>

RiskInfo == "Info"
RiskLow == "Low"
RiskMedium == "Medium"
RiskHigh == "High"
RiskCritical == "Critical"

RiskLevels == {RiskInfo, RiskLow, RiskMedium, RiskHigh, RiskCritical}

\* The zero value of RiskAssessment: what a PersistenceItem built by a probe
\* carries in its Risk field (no probe sets it).
ZeroRisk ==
    [Level |-> "", Score |-> FZero, Confidence |-> FZero, Reasons |-> <<>>,
     Heuristics |-> <<>>]

\* The k-th item discovered by probe p.
PersistenceItem(p, k) ==
    [ID |-> <<p, k>>, Mechanism |-> Mechanisms[p], Risk |-> ZeroRisk]

\* err.Error() of the error probe p fails with.
ErrTexts ==
    <<"error walking /Library/LaunchAgents", "error walking /Library/LaunchDaemons",
      "scanning user login items", "running system_profiler",
      "reading system crontab", "reading directory /etc/periodic/daily",
      "reading system login window preferences",
      "reading user login window preferences">>

ErrText(p) == ErrTexts[p]

ScanError(mech, err) == [Mechanism |-> mech, Error |-> err]

\* Every (items, err) pair the Scanner interface lets Scan() return with at
\* most max items; a non-nil err may come with the items found so far
\* (LaunchdScanner.Scan).
ScanOutcomes(p, max) ==
    { [items |-> [k \in 1..n |-> PersistenceItem(p, k)], err |-> e] :
        n \in 0..max, e \in {Nil, ErrText(p)} }

\* A Go map[RiskLevel]int is a function whose domain is the keys present.
EmptyMap == [l \in {} |-> 0]

MapGet(m, key) == IF key \in DOMAIN m THEN m[key] ELSE 0

MapIncr(m, key) ==
    [l \in DOMAIN m \cup {key} |-> IF l = key THEN MapGet(m, key) + 1 ELSE m[l]]

RECURSIVE RiskSummaryOf(_, _)
\* for _, item := range allItems { result.RiskSummary[item.Risk.Level]++ }
RiskSummaryOf(m, items) ==
    IF items = <<>> THEN m
    ELSE RiskSummaryOf(MapIncr(m, Head(items).Risk.Level), Tail(items))

NoResult == [Items |-> <<>>, TotalItems |-> 0, RiskSummary |-> EmptyMap,
             Errors |-> <<>>]

HeuristicResult(name, triggered, score, confidence, details) ==
    [Name |-> name, Triggered |-> triggered, Score |-> score,
     Confidence |-> confidence, Details |-> details]

----------------------------------------------------------------------------
(* Engine.AssessRisk *)

FOne == FInt(1)

\* z + x * y as the build computes it: rounded once when fused (arm64 and
\* the other targets on which the compiler emits a fused multiply-add),
\* else the product and the sum are rounded one after the other.
FMulAdd(fma, x, y, z) ==
    IF fma /\ x.cls = "num" /\ y.cls = "num" /\ z.cls = "num"
           /\ x.m # <<>> /\ y.m # <<>> /\ z.m # <<>>
    THEN LET pe == x.e + y.e
             e == IF pe < z.e THEN pe ELSE z.e
         IN  FRound(BigAdd(BigShl(BigMul(x.m, y.m), pe - e),
                           BigShl(z.m, z.e - e)), e, FALSE)
    ELSE FAdd(z, FMul(x, y))

CriticalThreshold == FLit(8, 10)
HighThreshold == FLit(6, 10)
MediumThreshold == FLit(4, 10)
LowThreshold == FLit(2, 10)

\* scoreToRiskLevel with the results of the second and third case exchanged
scoreToRiskLevelSwapped(score) ==
    IF FGeq(score, CriticalThreshold) THEN RiskCritical
    ELSE IF FGeq(score, HighThreshold) THEN RiskMedium
    ELSE IF FGeq(score, MediumThreshold) THEN RiskHigh
    ELSE IF FGeq(score, LowThreshold) THEN RiskLow
    ELSE RiskInfo

\* scoreToRiskLevel whose boundaries belong to the lower tier
scoreToRiskLevelStrict(score) ==
    IF FGt(score, CriticalThreshold) THEN RiskCritical
    ELSE IF FGt(score, HighThreshold) THEN RiskHigh
    ELSE IF FGt(score, MediumThreshold) THEN RiskMedium
    ELSE IF FGt(score, LowThreshold) THEN RiskLow
    ELSE RiskInfo

scoreToRiskLevel(score) ==
    IF FGeq(score, CriticalThreshold) THEN RiskCritical
    ELSE IF FGeq(score, HighThreshold) THEN RiskHigh
    ELSE IF FGeq(score, MediumThreshold) THEN RiskMedium
    ELSE IF FGeq(score, LowThreshold) THEN RiskLow
    ELSE RiskInfo

\* level := e.scoreToRiskLevel(score), for the next of the scores
ScoreToRiskLevelCall ==
    /\ Len(tierLevels) < Len(tierScores)
    /\ tierLevels' = Append(tierLevels,
                            scoreToRiskLevel(tierScores[Len(tierLevels) + 1]))
    /\ UNCHANGED <<scanVars, fused, riskVars, cliVars, tierScores, behaviorVars,
                   callVars>>

RECURSIVE AssessLoopIgnoresTriggered(_, _, _)
\* AssessLoop that accumulates every verdict, triggered or not
AssessLoopIgnoresTriggered(fma, vs, acc) ==
    IF vs = <<>> THEN acc
    ELSE LET r == Head(vs)
         IN  AssessLoopIgnoresTriggered(fma, Tail(vs),
                 [acc EXCEPT
                     !.Heuristics = Append(@, r),
                     !.triggeredCount = @ + 1,
                     !.totalScore = FMulAdd(fma, r.Score, r.Confidence, @),
                     !.totalConfidence = FAdd(@, r.Confidence),
                     !.Reasons = Append(@, r.Details)])

RECURSIVE AssessLoop(_, _, _)
\* for _, h := range e.heuristics { result := h.Analyze(item); ... }
\* over the verdicts vs still to come
AssessLoop(fma, vs, acc) ==
    IF vs = <<>> THEN acc
    ELSE LET r == Head(vs)
             withVerdict == [acc EXCEPT !.Heuristics = Append(@, r)]
         IN  AssessLoop(fma, Tail(vs),
                 IF r.Triggered
                 THEN [withVerdict EXCEPT
                          !.triggeredCount = @ + 1,
                          !.totalScore = FMulAdd(fma, r.Score, r.Confidence, @),
                          !.totalConfidence = FAdd(@, r.Confidence),
                          !.Reasons = Append(@, r.Details)]
                 ELSE withVerdict)

RECURSIVE SiftLeft(_, _)
\* for j := i; j > a && less(j, j-1); j-- { swap(j, j-1) }
\* with less(i, j) = Heuristics[i].Score > Heuristics[j].Score
SiftLeft(s, j) ==
    IF j > 1 /\ FGt(s[j].Score, s[j - 1].Score)
    THEN SiftLeft([s EXCEPT ![j] = s[j - 1], ![j - 1] = s[j]], j - 1)
    ELSE s

RECURSIVE InsertionSortFrom(_, _)
InsertionSortFrom(s, i) ==
    IF i > Len(s) THEN s ELSE InsertionSortFrom(SiftLeft(s, i), i + 1)

\* The slices sort.Slice sorts by insertion (pdqsort_func of the go 1.21
\* library): those of at most maxInsertion elements
maxInsertion == 12

\* less(i, j) of the sort: Heuristics[i].Score > Heuristics[j].Score
SortLess(s, i, j) == FGt(s[i].Score, s[j].Score)

\* data.Swap(i, j)
SortSwap(s, i, j) == [s EXCEPT ![i] = s[j], ![j] = s[i]]

\* order2_func: the indices a, b ordered by less, and the swaps counted
Order2(s, a, b, swaps) ==
    IF SortLess(s, b, a) THEN [x |-> b, y |-> a, swaps |-> swaps + 1]
    ELSE [x |-> a, y |-> b, swaps |-> swaps]

\* choosePivot_func on data[a, b) of 8 to 49 elements: the median of the
\* elements at the three quarters, with the hint "increasing" when no pair
\* of them was out of order
ChoosePivot(s, a, b) ==
    LET l == b - a
        i == a + (l \div 4) * 1
        j == a + (l \div 4) * 2
        k == a + (l \div 4) * 3
        o1 == Order2(s, i, j, 0)
        o2 == Order2(s, o1.y, k, o1.swaps)
        o3 == Order2(s, o1.x, o2.x, o2.swaps)
    IN  [pivot |-> o3.y,
         hint |-> IF o3.swaps = 0 THEN "increasing" ELSE "unknown"]

\* partialInsertionSort_func on fewer than 50 elements: it reports whether
\* the slice is sorted already and moves nothing
PartialInsertionSort(s) == \A i \in 2..Len(s) : ~SortLess(s, i, i - 1)

RECURSIVE ScanUp(_, _, _, _)
\* for i <= j && less(data[i], data[a]) { i++ }
ScanUp(s, a, i, j) ==
    IF i <= j /\ SortLess(s, i, a) THEN ScanUp(s, a, i + 1, j) ELSE i

RECURSIVE ScanDown(_, _, _, _)
\* for i <= j && !less(data[j], data[a]) { j-- }
ScanDown(s, a, i, j) ==
    IF i <= j /\ ~SortLess(s, j, a) THEN ScanDown(s, a, i, j - 1) ELSE j

RECURSIVE PartitionLoop(_, _, _, _)
\* partition_func, from one pair of scans on: swap what they stop at, or
\* put the pivot between the two parts and return its index
PartitionLoop(s, a, i0, j0) ==
    LET i == ScanUp(s, a, i0, j0)
        j == ScanDown(s, a, i, j0)
    IN  IF i > j THEN [data |-> SortSwap(s, j, a), mid |-> j]
        ELSE PartitionLoop(SortSwap(s, i, j), a, i + 1, j - 1)

\* partition_func(data, a, b, pivot): data.Swap(a, pivot), then the scans
Partition(s, a, b, pivot) == PartitionLoop(SortSwap(s, a, pivot), a, a + 1, b - 1)

\* SortSlice that leaves the slice as it is
SortSliceSkipped(s) == s

RECURSIVE SortSlice(_)
\* sort.Slice(assessment.Heuristics, less), as pdqsort_func runs on a slice
\* of at most maxInsertion + 1 elements: insertion sort up to maxInsertion,
\* and above it one partition around the chosen pivot (unless the slice is
\* found sorted) whose two parts are then sorted in the same way.
SortSlice(s) ==
    IF Len(s) <= maxInsertion THEN InsertionSortFrom(s, 2)
    ELSE LET cp == ChoosePivot(s, 1, Len(s) + 1)
         IN  IF cp.hint = "increasing" /\ PartialInsertionSort(s) THEN s
             ELSE LET p == Partition(s, 1, Len(s) + 1, cp.pivot)
                  IN  SortSlice(SubSeq(p.data, 1, p.mid - 1))
                          \o <<p.data[p.mid]>>
                          \o SortSlice(SubSeq(p.data, p.mid + 1, Len(s)))

\* AssessRisk whose score is the sum divided by the number of triggered
\* verdicts
AssessRiskMeanByCount(fma, vs) ==
    LET acc == AssessLoop(fma, vs,
                   [Heuristics |-> <<>>, Reasons |-> <<>>, triggeredCount |-> 0,
                    totalScore |-> FZero, totalConfidence |-> FZero])
        score == IF acc.triggeredCount > 0
                 THEN FDiv(acc.totalScore, FInt(acc.triggeredCount))
                 ELSE FZero
        confidence == IF acc.triggeredCount > 0
                      THEN FMin(FDiv(acc.totalConfidence,
                                     FInt(acc.triggeredCount)), FOne)
                      ELSE FOne
    IN  [Level |-> scoreToRiskLevel(score),
         Score |-> score,
         Confidence |-> confidence,
         Reasons |-> acc.Reasons,
         Heuristics |-> SortSlice(acc.Heuristics)]

\* AssessRisk whose confidence is the mean without the cap at 1.0
AssessRiskUnclamped(fma, vs) ==
    LET acc == AssessLoop(fma, vs,
                   [Heuristics |-> <<>>, Reasons |-> <<>>, triggeredCount |-> 0,
                    totalScore |-> FZero, totalConfidence |-> FZero])
        score == IF acc.triggeredCount > 0
                 THEN FDiv(acc.totalScore, acc.totalConfidence)
                 ELSE FZero
        confidence == IF acc.triggeredCount > 0
                      THEN FDiv(acc.totalConfidence, FInt(acc.triggeredCount))
                      ELSE FOne
    IN  [Level |-> scoreToRiskLevel(score),
         Score |-> score,
         Confidence |-> confidence,
         Reasons |-> acc.Reasons,
         Heuristics |-> SortSlice(acc.Heuristics)]

\* AssessRisk that collects the reasons from the sorted verdict list
AssessRiskReasonsSorted(fma, vs) ==
    LET acc == AssessLoop(fma, vs,
                   [Heuristics |-> <<>>, Reasons |-> <<>>, triggeredCount |-> 0,
                    totalScore |-> FZero, totalConfidence |-> FZero])
        score == IF acc.triggeredCount > 0
                 THEN FDiv(acc.totalScore, acc.totalConfidence)
                 ELSE FZero
        confidence == IF acc.triggeredCount > 0
                      THEN FMin(FDiv(acc.totalConfidence,
                                     FInt(acc.triggeredCount)), FOne)
                      ELSE FOne
        sorted == SortSlice(acc.Heuristics)
        triggered == SelectSeq(sorted, LAMBDA r : r.Triggered)
    IN  [Level |-> scoreToRiskLevel(score),
         Score |-> score,
         Confidence |-> confidence,
         Reasons |-> [k \in DOMAIN triggered |-> triggered[k].Details],
         Heuristics |-> sorted]

\* AssessRisk(item), given the verdicts vs the heuristics return for item
AssessRisk(fma, vs) ==
    LET acc == AssessLoop(fma, vs,
                   [Heuristics |-> <<>>, Reasons |-> <<>>, triggeredCount |-> 0,
                    totalScore |-> FZero, totalConfidence |-> FZero])
        score == IF acc.triggeredCount > 0
                 THEN FDiv(acc.totalScore, acc.totalConfidence)
                 ELSE FZero
        confidence == IF acc.triggeredCount > 0
                      THEN FMin(FDiv(acc.totalConfidence,
                                     FInt(acc.triggeredCount)), FOne)
                      ELSE FOne
    IN  [Level |-> scoreToRiskLevel(score),
         Score |-> score,
         Confidence |-> confidence,
         Reasons |-> acc.Reasons,
         Heuristics |-> SortSlice(acc.Heuristics)]

\* The Name() of the heuristics, in the order runScan hands them to NewEngine.
HeuristicNames ==
    <<"signature_verification", "suspicious_path", "suspicious_behavior",
      "name_entropy">>

\* The Details text heuristic h explains a verdict with.
DetailTexts ==
    <<"Binary is unsigned or has invalid signature",
      "System-level persistence pointing to user directory",
      "Very frequent execution interval (less than 60 seconds)",
      "High entropy in name suggests randomness">>

\* The verdicts the heuristics may return for the entry (scores and
\* confidences in hundredths): triggered ones over a grid, one triggered with
\* confidence 0, and two that did not trigger.
GridScores == {30, 70, 90}
GridConfidences == {50, 80, 100}

GridVerdicts ==
    { [Triggered |-> TRUE, Score |-> FLit(s, 100), Confidence |-> FLit(c, 100)] :
        s \in GridScores, c \in GridConfidences }
    \cup { [Triggered |-> TRUE, Score |-> FLit(70, 100), Confidence |-> FZero] }
    \cup { [Triggered |-> FALSE, Score |-> FLit(s, 100),
            Confidence |-> FLit(80, 100)] : s \in {0, 70} }

\* Further verdicts of the first heuristic: a score on each threshold of
\* scoreToRiskLevel with confidence 1.0, and one whose confidence is above 1
\* (HeuristicResult.Confidence is a float64 no code restricts).
EdgeVerdicts ==
    { [Triggered |-> TRUE, Score |-> FLit(s, 10), Confidence |-> FOne] :
        s \in {2, 4, 6, 8} }
    \cup { [Triggered |-> TRUE, Score |-> FLit(70, 100),
            Confidence |-> FLit(150, 100)] }

\* The verdicts heuristic h may return for the entry.
VerdictGrid(h) ==
    { HeuristicResult(HeuristicNames[h], g.Triggered, g.Score, g.Confidence,
                      DetailTexts[h]) :
        g \in GridVerdicts \cup (IF h = 1 THEN EdgeVerdicts ELSE {}) }

\* assessment := AssessRisk(item)
AssessRiskCall ==
    /\ riskPc = "call"
    /\ assessment' = AssessRisk(fused, verdicts)
    /\ riskPc' = "done"
    /\ UNCHANGED <<scanVars, fused, verdicts, cliVars, unitVars>>

----------------------------------------------------------------------------
(* BehaviorHeuristic.Analyze on the entries of LaunchdScanner.parsePlist.
   A string is the sequence of its pieces: the pieces are the substrings
   the code looks for and the text between them. Times are in hours. *)

\* strings.Contains(s, piece)
StrContains(s, piece) == \E k \in DOMAIN s : s[k] = piece

\* strings.HasSuffix(s, piece)
StrHasSuffix(s, piece) == s # <<>> /\ s[Len(s)] = piece

RECURSIVE StrJoin(_, _)
\* strings.Join(elems, sep)
StrJoin(elems, sep) ==
    IF elems = <<>> THEN <<>>
    ELSE IF Len(elems) = 1 THEN elems[1]
    ELSE elems[1] \o <<sep>> \o StrJoin(Tail(elems), sep)

\* strings.ToLower(s), piece by piece
StrToLower(s) ==
    [k \in DOMAIN s |->
        CASE s[k] = "CURL" -> "curl"
          [] s[k] = "Helper" -> "helper"
          [] OTHER -> s[k]]

\* time.Time{}, for which IsZero() holds
ZeroTime == 0

\* The time at which the clock of the model starts, and the hours it
\* advances in one step
ClockStart == 1000
TickHours == 12

\* The values of RawData: an int, a []string or a []byte
RawInt(n) == [kind |-> "int", int |-> n, text |-> <<>>]
RawStrings(ss) == [kind |-> "[]string", int |-> 0, text |-> StrJoin(ss, " ")]
RawBytes(b) == [kind |-> "[]byte", int |-> 0, text |-> b]

\* The decoded property lists: LaunchdPlist values
LaunchdPlists ==
    LET plain == [Label |-> <<"com.example.", "agent">>,
                  Program |-> <<"/usr/local/bin/", "agent">>,
                  ProgramArguments |-> <<>>,
                  RunAtLoad |-> FALSE, KeepAlive |-> [kind |-> "absent"],
                  Disabled |-> FALSE, StartInterval |-> 0, WatchPaths |-> <<>>]
        resident == [plain EXCEPT !.RunAtLoad = TRUE,
                                  !.KeepAlive = [kind |-> "bool", b |-> TRUE]]
    IN  { plain,
          resident,
          [resident EXCEPT !.Label = <<"com.example.", "Helper">>],
          [resident EXCEPT !.StartInterval = 30],
          [resident EXCEPT !.KeepAlive = [kind |-> "map", len |-> 1],
                           !.WatchPaths = << <<"/Users/", "Shared/">> >>],
          [resident EXCEPT !.Disabled = TRUE],
          [plain EXCEPT !.StartInterval = 30],
          [plain EXCEPT !.StartInterval = 3600,
                        !.KeepAlive = [kind |-> "bool", b |-> FALSE]],
          [plain EXCEPT !.Program = <<>>,
                        !.ProgramArguments =
                            << <<"/bin/sh">>, <<"-c">>, <<"echo ok">> >>],
          [plain EXCEPT !.RunAtLoad = TRUE,
                        !.ProgramArguments =
                            << <<"/usr/bin/", "CURL">>, <<"-o">>,
                               <<"https://", "example.com/x">> >>] }

\* The path of the file the property list pl is decoded from: the file is
\* named after the label and lies in the first directory of the probe of
\* type mech
LaunchdPath(pl, mech) ==
    <<IF mech = "LaunchDaemon" THEN "/Library/LaunchDaemons/"
      ELSE "/Library/LaunchAgents/">> \o pl.Label \o <<".plist">>

\* LaunchdScanner.parsePlist: the entry made of the property list pl by the
\* probe of type mech, for a file last modified at modTime
parsePlist(pl, mech, modTime) ==
    LET program == IF pl.Program = <<>> /\ Len(pl.ProgramArguments) > 0
                   THEN pl.ProgramArguments[1]
                   ELSE pl.Program
        keepAlive == CASE pl.KeepAlive.kind = "bool" -> pl.KeepAlive.b
                       [] pl.KeepAlive.kind = "map" -> pl.KeepAlive.len > 0
                       [] OTHER -> FALSE
        keys == (IF pl.StartInterval > 0 THEN {"StartInterval"} ELSE {})
                \cup (IF Len(pl.WatchPaths) > 0 THEN {"WatchPaths"} ELSE {})
    IN  [Mechanism |-> mech,
         Label |-> pl.Label,
         Path |-> LaunchdPath(pl, mech),
         Program |-> program,
         ProgramArgs |-> pl.ProgramArguments,
         RunAtLoad |-> pl.RunAtLoad,
         KeepAlive |-> keepAlive,
         Disabled |-> pl.Disabled,
         ModifiedAt |-> modTime,
         Risk |-> ZeroRisk,
         RawData |-> [k \in keys |->
                        IF k = "StartInterval" THEN RawInt(pl.StartInterval)
                        ELSE RawStrings(pl.WatchPaths)]]

\* The entry of the specifications in which no heuristic runs
NoEntry == parsePlist(CHOOSE pl \in LaunchdPlists : TRUE, Mechanisms[1], ZeroTime)

\* result at the start of BehaviorHeuristic.Analyze
BehaviorInitial ==
    HeuristicResult("suspicious_behavior", FALSE, FZero, FLit(85, 100), "")

\* The patterns looked for in the arguments, with the score (in tenths) and
\* the reason of each
suspiciousArgs ==
    << [pattern |-> "-e", score |-> 5,
        reason |-> "Contains script execution flag"],
       [pattern |-> "base64", score |-> 7,
        reason |-> "Contains base64 encoding/decoding"],
       [pattern |-> "curl", score |-> 6,
        reason |-> "Downloads content from internet"],
       [pattern |-> "wget", score |-> 6,
        reason |-> "Downloads content from internet"],
       [pattern |-> "/dev/null", score |-> 4,
        reason |-> "Redirects output to null device"],
       [pattern |-> "nohup", score |-> 5,
        reason |-> "Runs process immune to hangups"],
       [pattern |-> "eval", score |-> 7,
        reason |-> "Evaluates dynamic code"],
       [pattern |-> "http://", score |-> 8,
        reason |-> "Contains HTTP URL"],
       [pattern |-> "https://", score |-> 6,
        reason |-> "Contains HTTPS URL"] >>

interpreters ==
    {"/bin/sh", "/bin/bash", "/bin/zsh", "/usr/bin/python", "/usr/bin/ruby",
     "/usr/bin/perl"}

uiIndicators ==
    {".app/", "Contents/MacOS/", "LSUIElement", "NSUIElement", "GUI",
     "Assistant", "Helper"}

\* hasUIIndicators panics: the type assertion v.([]byte) on a value of
\* RawData that is no []byte
UIIndicatorsPanics(item) ==
    \E k \in DOMAIN item.RawData : item.RawData[k].kind # "[]byte"

\* hasUIIndicators, when it does not panic: checkStr holds an indicator
hasUIIndicators(item) ==
    \E indicator \in uiIndicators :
        \/ StrContains(item.Program \o <<" ">> \o item.Label, indicator)
        \/ \E k \in DOMAIN item.RawData :
              StrContains(<<" ", k, " ">> \o item.RawData[k].text, indicator)

\* BehaviorHeuristic.Analyze(item) with the clock at t: whether it
\* panicked, and else the verdict it returns
BehaviorAnalyze(item, t) ==
    LET resident == /\ item.Mechanism = "LaunchAgent"
                    /\ item.RunAtLoad /\ item.KeepAlive /\ ~item.Disabled
        age == t - item.ModifiedAt
        timed == IF item.ModifiedAt # ZeroTime /\ age < 7 * 24
                 THEN [BehaviorInitial EXCEPT
                          !.Triggered = TRUE,
                          !.Score = IF age < 24 THEN FLit(6, 10) ELSE FLit(4, 10),
                          !.Details =
                              IF age < 24
                              THEN "Very recently created persistence item (less than 24 hours old)"
                              ELSE "Recently created persistence item (less than 7 days old)",
                          !.Confidence = FLit(95, 100)]
                 ELSE BehaviorInitial
        argsStr == StrToLower(StrJoin(item.ProgramArgs, " "))
        hits == { k \in DOMAIN suspiciousArgs :
                    StrContains(argsStr, suspiciousArgs[k].pattern) }
        first == CHOOSE k \in hits : \A other \in hits : k <= other
        Returns(r) == [panicked |-> FALSE, result |-> r]
    IN  IF resident /\ UIIndicatorsPanics(item)
        THEN [panicked |-> TRUE, result |-> BehaviorInitial]
        ELSE IF resident /\ ~hasUIIndicators(item)
        THEN Returns([BehaviorInitial EXCEPT
                         !.Triggered = TRUE,
                         !.Score = FLit(6, 10),
                         !.Details = "LaunchAgent with KeepAlive and RunAtLoad but no UI components"])
        ELSE IF Len(item.ProgramArgs) > 0 /\ hits # {}
        THEN Returns([timed EXCEPT
                         !.Triggered = TRUE,
                         !.Score = FLit(suspiciousArgs[first].score, 10),
                         !.Details = suspiciousArgs[first].reason])
        ELSE IF /\ item.Program # <<>>
                /\ \E interpreter \in interpreters :
                      StrHasSuffix(item.Program, interpreter)
                /\ Len(item.ProgramArgs) > 1
                /\ \E k \in DOMAIN item.ProgramArgs : item.ProgramArgs[k] = <<"-c">>
        THEN Returns([timed EXCEPT
                         !.Triggered = TRUE,
                         !.Score = FLit(6, 10),
                         !.Details = "Shell interpreter with inline command execution"])
        ELSE IF /\ "StartInterval" \in DOMAIN item.RawData
                /\ item.RawData["StartInterval"].kind = "int"
                /\ item.RawData["StartInterval"].int < 60
        THEN Returns([timed EXCEPT
                         !.Triggered = TRUE,
                         !.Score = FLit(5, 10),
                         !.Details = "Very frequent execution interval (less than 60 seconds)"])
        ELSE Returns(timed)

\* Time passes between two calls
ClockTick ==
    /\ now < ClockStart + MaxTicks * TickHours
    /\ now' = now + TickHours
    /\ UNCHANGED <<scanVars, fused, riskVars, cliVars, tierVars, entry,
                   analyzed, assessed, heuristics, callVars>>

\* BehaviorAssessCall that stores the assessment in the entry's Risk field
BehaviorAssessCallAttaches ==
    /\ Len(assessed) < 2
    /\ assessed # <<>> => ~assessed[Len(assessed)].panicked
    /\ analyzed' = Append(analyzed, BehaviorAnalyze(entry, now))
    /\ LET r == analyzed'[Len(analyzed')]
       IN  assessed' = Append(assessed,
               [panicked |-> r.panicked,
                risk |-> IF r.panicked THEN ZeroRisk
                         ELSE AssessRisk(fused, <<r.result>>)])
    /\ entry' = [entry EXCEPT !.Risk = assessed'[Len(assessed')].risk]
    /\ UNCHANGED <<scanVars, fused, riskVars, cliVars, tierVars, now,
                   heuristics, callVars>>

\* AssessRisk(&entry) on an engine whose heuristic is the BehaviorHeuristic,
\* called twice on the same entry; a panic ends the process
BehaviorAssessCall ==
    /\ Len(assessed) < 2
    /\ assessed # <<>> => ~assessed[Len(assessed)].panicked
    /\ analyzed' = Append(analyzed, BehaviorAnalyze(entry, now))
    /\ LET r == analyzed'[Len(analyzed')]
       IN  assessed' = Append(assessed,
               [panicked |-> r.panicked,
                risk |-> IF r.panicked THEN ZeroRisk
                         ELSE AssessRisk(fused, <<r.result>>)])
    /\ UNCHANGED <<scanVars, fused, riskVars, cliVars, tierVars, entry, now,
                   heuristics, callVars>>

----------------------------------------------------------------------------
(* SignatureHeuristic, PathHeuristic and EntropyHeuristic. They look at the
   characters of Program, Path and Label, so here a string is a Go string
   of one-byte characters; Text(s) is the string made of the pieces s. *)

RECURSIVE Text(_)
Text(s) == IF s = <<>> THEN "" ELSE Head(s) \o Text(Tail(s))

\* s[i-1:i], the i-th byte of s as a string
CharAt(s, i) == SubSeq(s, i, i)

\* strings.HasPrefix(s, prefix)
HasPrefix(s, prefix) ==
    Len(s) >= Len(prefix) /\ SubSeq(s, 1, Len(prefix)) = prefix

\* strings.HasSuffix(s, suffix)
HasSuffix(s, suffix) ==
    Len(s) >= Len(suffix)
    /\ SubSeq(s, Len(s) - Len(suffix) + 1, Len(s)) = suffix

\* strings.Contains(s, substr)
Contains(s, substr) ==
    \E i \in 1..(Len(s) - Len(substr) + 1) :
        SubSeq(s, i, i + Len(substr) - 1) = substr

\* strings.Count(s, sep) for a one-byte sep
Count(s, sep) == Cardinality({ i \in 1..Len(s) : CharAt(s, i) = sep })

\* strings.TrimPrefix(s, prefix)
TrimPrefix(s, prefix) ==
    IF HasPrefix(s, prefix) THEN SubSeq(s, Len(prefix) + 1, Len(s)) ELSE s

\* strings.TrimSuffix(s, suffix)
TrimSuffix(s, suffix) ==
    IF HasSuffix(s, suffix) THEN SubSeq(s, 1, Len(s) - Len(suffix)) ELSE s

UpperLetters == "ABCDEFGHIJKLMNOPQRSTUVWXYZ"
LowerLetters == "abcdefghijklmnopqrstuvwxyz"
Digits == "0123456789"

\* unicode.ToLower of an ASCII character
LowerOf(c) ==
    IF Contains(UpperLetters, c)
    THEN CharAt(LowerLetters,
                CHOOSE i \in 1..Len(UpperLetters) : CharAt(UpperLetters, i) = c)
    ELSE c

RECURSIVE ToLower(_)
\* strings.ToLower(s)
ToLower(s) == IF s = "" THEN "" ELSE LowerOf(Head(s)) \o ToLower(Tail(s))

RECURSIVE StripTrailingSlashes(_)
StripTrailingSlashes(path) ==
    IF HasSuffix(path, "/")
    THEN StripTrailingSlashes(SubSeq(path, 1, Len(path) - 1))
    ELSE path

\* filepath.Base(path)
PathBase(path) ==
    IF path = "" THEN "."
    ELSE LET p == StripTrailingSlashes(path)
             slashes == { i \in 1..Len(p) : CharAt(p, i) = "/" }
             last == IF slashes = {} THEN 0
                     ELSE CHOOSE i \in slashes : \A j \in slashes : j <= i
         IN  IF p = "" THEN "/" ELSE SubSeq(p, last + 1, Len(p))

\* The character classes of the regular expressions
ClassAlnum == LowerLetters \o UpperLetters \o Digits
ClassAlnumDash == ClassAlnum \o "-"
ClassLetters == LowerLetters \o UpperLetters
ClassBase64 == UpperLetters \o LowerLetters \o Digits \o "+/"
ClassHex == Digits \o "abcdefABCDEF"

\* Every character of s is of the class
AllIn(s, class) == \A i \in 1..Len(s) : Contains(class, CharAt(s, i))

RECURSIVE RunEnd(_, _, _)
\* The index behind the longest run of characters of the class that starts
\* at index i of s
RunEnd(s, i, class) ==
    IF i <= Len(s) /\ Contains(class, CharAt(s, i))
    THEN RunEnd(s, i + 1, class)
    ELSE i

\* regexp.MatchString(`^prefix[a-zA-Z0-9-]+\.[a-zA-Z0-9-]+`, name), prefix
\* being com\. or org\. or io\.
MatchReverseDomain(prefix, name) ==
    /\ HasPrefix(name, prefix)
    /\ LET start == Len(prefix) + 1
           dot == RunEnd(name, start, ClassAlnumDash)
       IN  /\ dot > start
           /\ dot < Len(name)
           /\ CharAt(name, dot) = "."
           /\ Contains(ClassAlnumDash, CharAt(name, dot + 1))

\* regexp.MatchString(`^[a-zA-Z0-9]+-[a-zA-Z0-9]+$`, name)
MatchProductComponent(name) ==
    LET dash == RunEnd(name, 1, ClassAlnum)
    IN  /\ dash > 1
        /\ dash < Len(name)
        /\ CharAt(name, dash) = "-"
        /\ AllIn(SubSeq(name, dash + 1, Len(name)), ClassAlnum)

\* regexp.MatchString(`^[A-Z][a-zA-Z]+suffix$`, name), suffix being Agent,
\* Helper or Daemon
MatchCapitalized(suffix, name) ==
    /\ Len(name) >= Len(suffix) + 2
    /\ Contains(UpperLetters, CharAt(name, 1))
    /\ AllIn(name, ClassLetters)
    /\ HasSuffix(name, suffix)

\* EntropyHeuristic.isLegitimateNaming(name)
isLegitimateNaming(name) ==
    \/ MatchReverseDomain("com.", name)
    \/ MatchReverseDomain("org.", name)
    \/ MatchReverseDomain("io.", name)
    \/ MatchProductComponent(name)
    \/ MatchCapitalized("Agent", name)
    \/ MatchCapitalized("Helper", name)
    \/ MatchCapitalized("Daemon", name)

appleMimicry ==
    {"com.apple.", "com.aaple.", "com.appie.", "com.aple.", "systemd",
     "systemagent", "coreservices", "macos", "macosupdate"}

suspicious ==
    {"update", "updater", "service", "system", "helper", "agent", "daemon"}

\* EntropyHeuristic.isSuspiciousNaming(name)
isSuspiciousNaming(name) ==
    LET lower == ToLower(name)
    IN  \/ \E mimic \in appleMimicry :
              Contains(lower, mimic) /\ ~HasPrefix(lower, "com.apple.")
        \/ Cardinality({ word \in suspicious : Contains(lower, word) }) >= 2

\* EntropyHeuristic.looksLikeBase64(s):
\* regexp.MatchString(`^[A-Za-z0-9+/]{20,}={0,2}$`, s) after the trimming
looksLikeBase64(s) ==
    LET t == TrimSuffix(TrimPrefix(s, "com."), ".plist")
        pad == RunEnd(t, 1, ClassBase64)
    IN  /\ pad - 1 >= 20
        /\ SubSeq(t, pad, Len(t)) \in {"", "=", "=="}

\* EntropyHeuristic.looksLikeHex(s):
\* regexp.MatchString(`^[0-9a-fA-F]{16,}$`, s) after the trimming
looksLikeHex(s) ==
    LET t == TrimSuffix(TrimPrefix(s, "com."), ".plist")
    IN  Len(t) >= 16 /\ AllIn(t, ClassHex)

RECURSIVE BigPow(_, _)
\* b^k
BigPow(b, k) ==
    IF k = 0 THEN BigOne
    ELSE IF k % 2 = 1 THEN BigMulSmall(BigPow(b, k - 1), b)
    ELSE LET half == BigPow(b, k \div 2)
         IN  BigMul(half, half)

RECURSIVE FreqPower(_, _)
\* The product of count^(2 * count) over the characters of s that occur
\* more than once, count being the number of times the character occurs;
\* ks are the counts still to be multiplied in
FreqPower(s, ks) ==
    IF ks = {} THEN BigOne
    ELSE LET k == CHOOSE x \in ks : TRUE
             m == Cardinality({ c \in { CharAt(s, i) : i \in 1..Len(s) } :
                                  Count(s, c) = k })
         IN  BigMul(BigPow(k, 2 * k * m), FreqPower(s, ks \ {k}))

\* EntropyHeuristic.calculateEntropy(s) > 4.5. With n = len(s) the entropy
\* is log2(n) - (sum of count * log2(count)) / n, which is above 9/2 exactly
\* when n^(2n) > 2^(9n) * product of count^(2 count). The float64 sum the
\* code computes is within 2^-40 of that value for names of up to 64 bytes;
\* no name of the model has its entropy that close to 4.5.
calculateEntropyAbove4_5(s) ==
    /\ Len(s) > 0
    /\ BigCmp(BigPow(Len(s), 2 * Len(s)),
              BigShl(FreqPower(s, { Count(s, CharAt(s, i)) : i \in 1..Len(s) }
                                      \ {1}),
                     9 * Len(s))) > 0

\* result at the start of SignatureHeuristic.Analyze
SignatureInitial ==
    HeuristicResult("signature_verification", FALSE, FZero, FLit(8, 10), "")

\* What exec.Command("codesign", "-dv", "--verbose=4", item.Program) may
\* come back with: whether err != nil, and the combined output
CodesignRuns ==
    { [err |-> TRUE, output |-> "code object is not signed at all"],
      [err |-> TRUE, output |-> "No such file or directory"],
      [err |-> FALSE,
       output |-> "Identifier=com.apple.cfprefsd Authority=Software Signing Authority=Apple Root CA"],
      [err |-> FALSE,
       output |-> "Identifier=org.example.tool Authority=Developer ID Application: Example (A1B2C3D4E5)"],
      [err |-> FALSE,
       output |-> "Identifier=org.example.tool CSSMERR_TP_CERT_REVOKED"],
      [err |-> FALSE,
       output |-> "Identifier=tool-5555494 Signature=adhoc"] }

\* SignatureHeuristic.Analyze(item), run being what codesign came back with
SignatureAnalyze(item, run) ==
    IF Text(item.Program) = "" THEN SignatureInitial
    ELSE IF run.err
    THEN IF Contains(run.output, "code object is not signed")
         THEN [SignatureInitial EXCEPT
                  !.Triggered = TRUE,
                  !.Score = FLit(6, 10),
                  !.Details = "Binary is not code signed"]
         ELSE IF Contains(run.output, "adhoc")
         THEN [SignatureInitial EXCEPT
                  !.Triggered = TRUE,
                  !.Score = FLit(8, 10),
                  !.Details = "Binary has ad-hoc signature (not from trusted developer)"]
         ELSE [SignatureInitial EXCEPT
                  !.Triggered = TRUE,
                  !.Score = FLit(7, 10),
                  !.Details = "Binary is unsigned or has invalid signature"]
    ELSE IF Contains(run.output, "Authority=Apple")
            \/ Contains(run.output, "com.apple.")
    THEN SignatureInitial
    ELSE IF Contains(run.output, "Authority=Developer ID")
    THEN [SignatureInitial EXCEPT
             !.Triggered = TRUE,
             !.Score = FLit(2, 10),
             !.Details = "Binary signed with Developer ID certificate",
             !.Confidence = FLit(9, 10)]
    ELSE IF Contains(run.output, "REVOKED")
    THEN [SignatureInitial EXCEPT
             !.Triggered = TRUE,
             !.Score = FLit(9, 10),
             !.Details = "Binary signed with revoked certificate",
             !.Confidence = FOne]
    ELSE [SignatureInitial EXCEPT
             !.Triggered = TRUE,
             !.Score = FLit(5, 10),
             !.Details = "Binary has unknown signature type"]

\* result at the start of PathHeuristic.Analyze
PathInitial ==
    HeuristicResult("suspicious_path", FALSE, FZero, FLit(9, 10), "")

\* The patterns looked for in the program path, with the score (in tenths)
\* and the reason of each
suspiciousPatterns ==
    << [pattern |-> "/tmp/", score |-> 8,
        reason |-> "Binary located in temporary directory"],
       [pattern |-> "/var/tmp/", score |-> 8,
        reason |-> "Binary located in temporary directory"],
       [pattern |-> "/Users/Shared/", score |-> 6,
        reason |-> "Binary in shared user directory (common malware location)"],
       [pattern |-> "/.hidden", score |-> 7,
        reason |-> "Binary in hidden directory"],
       [pattern |-> "/Library/Application Support/", score |-> 3,
        reason |-> "Binary in Application Support (sometimes suspicious)"],
       [pattern |-> "~/Downloads/", score |-> 5,
        reason |-> "Binary in Downloads folder"],
       [pattern |-> "/usr/local/bin/", score |-> 2,
        reason |-> "Binary in user local bin (common for legitimate tools)"] >>

systemBinaries == {"bash", "sh", "python", "ruby", "perl", "osascript"}

\* PathHeuristic.Analyze(item)
PathAnalyze(item) ==
    LET programPath == IF Text(item.Program) = "" /\ Text(item.Path) # ""
                       THEN Text(item.Path)
                       ELSE Text(item.Program)
        hits == { k \in DOMAIN suspiciousPatterns :
                    Contains(programPath, suspiciousPatterns[k].pattern) }
        first == CHOOSE k \in hits : \A other \in hits : k <= other
    IN  IF hits # {}
        THEN [PathInitial EXCEPT
                 !.Triggered = TRUE,
                 !.Score = FLit(suspiciousPatterns[first].score, 10),
                 !.Details = suspiciousPatterns[first].reason]
        ELSE IF /\ \/ item.Mechanism = "LaunchDaemon"
                   \/ HasPrefix(Text(item.Path), "/Library/")
                /\ Contains(programPath, "/Users/")
                /\ ~Contains(programPath, "/Users/Shared/")
        THEN [PathInitial EXCEPT
                 !.Triggered = TRUE,
                 !.Score = FLit(7, 10),
                 !.Details = "System-level persistence pointing to user directory"]
        ELSE IF Count(programPath, "/") > 8
        THEN [PathInitial EXCEPT
                 !.Triggered = TRUE,
                 !.Score = FLit(5, 10),
                 !.Details = "Binary located in deeply nested directory"]
        ELSE IF /\ PathBase(programPath) \in systemBinaries
                /\ ~HasPrefix(programPath, "/usr/")
                /\ ~HasPrefix(programPath, "/bin/")
                /\ ~HasPrefix(programPath, "/System/")
        THEN [PathInitial EXCEPT
                 !.Triggered = TRUE,
                 !.Score = FLit(6, 10),
                 !.Details = "System binary name in non-standard location"]
        ELSE PathInitial

\* result at the start of EntropyHeuristic.Analyze
EntropyInitial ==
    HeuristicResult("name_entropy", FALSE, FZero, FLit(7, 10), "")

\* EntropyHeuristic.Analyze(item)
EntropyAnalyze(item) ==
    LET nameToCheck == IF Text(item.Label) = ""
                       THEN PathBase(Text(item.Path))
                       ELSE Text(item.Label)
    IN  IF isLegitimateNaming(nameToCheck) THEN EntropyInitial
        ELSE IF isSuspiciousNaming(nameToCheck)
        THEN [EntropyInitial EXCEPT
                 !.Triggered = TRUE,
                 !.Score = FLit(7, 10),
                 !.Details = "Name appears to mimic Apple naming conventions"]
        ELSE IF calculateEntropyAbove4_5(nameToCheck)
        THEN [EntropyInitial EXCEPT
                 !.Triggered = TRUE,
                 !.Score = FLit(6, 10),
                 !.Details = "High entropy in name suggests randomness",
                 !.Confidence = FLit(8, 10)]
        ELSE IF looksLikeBase64(nameToCheck)
        THEN [EntropyInitial EXCEPT
                 !.Triggered = TRUE,
                 !.Score = FLit(7, 10),
                 !.Details = "Name appears to contain Base64 encoded data"]
        ELSE IF looksLikeHex(nameToCheck)
        THEN [EntropyInitial EXCEPT
                 !.Triggered = TRUE,
                 !.Score = FLit(6, 10),
                 !.Details = "Name appears to contain hexadecimal data"]
        ELSE EntropyInitial

\* Further decoded property lists, for the program paths and the labels the
\* path and the name heuristics tell apart
NamedPlists ==
    LET plain == [Label |-> <<"com.example.sync">>,
                  Program |-> <<"/usr/libexec/syncd">>,
                  ProgramArguments |-> <<>>,
                  RunAtLoad |-> FALSE, KeepAlive |-> [kind |-> "absent"],
                  Disabled |-> FALSE, StartInterval |-> 0, WatchPaths |-> <<>>]
    IN  { plain,
          [plain EXCEPT !.Program = <<"/Users/Shared/updater">>],
          [plain EXCEPT !.Program = <<"/tmp/payload">>],
          [plain EXCEPT !.Program = <<"/Users/alice/bin/tool">>],
          [plain EXCEPT !.Program = <<>>],
          [plain EXCEPT !.Label = <<"QwErTyUiOpAsDfGhJkLzXcVbNm">>],
          [plain EXCEPT !.Label = <<"deadbeefcafe0123">>,
                        !.Program = <<"/opt/tools/bash">>],
          [plain EXCEPT !.Label = <<"YWJjZGVmZ2hpamtsbW5vcA==">>],
          [plain EXCEPT !.Label = <<"systemupdater">>,
                        !.Program = <<"/private/var/db/a/b/c/d/e/f/tool">>],
          [plain EXCEPT !.Label = <<>>, !.Program = <<>>] }

\* AssessRisk(&entry) on the engine runScan builds, with the four shipped
\* heuristics in its order; a panic of a heuristic ends the process
ShippedAssessCall ==
    /\ riskPc = "call"
    /\ IF BehaviorAnalyze(entry, now).panicked
       THEN /\ riskPc' = "panicked"
            /\ UNCHANGED <<verdicts, assessment>>
       ELSE /\ \E run \in CodesignRuns :
                  verdicts' = <<SignatureAnalyze(entry, run),
                                PathAnalyze(entry),
                                BehaviorAnalyze(entry, now).result,
                                EntropyAnalyze(entry)>>
            /\ assessment' = AssessRisk(fused, verdicts')
            /\ riskPc' = "done"
    /\ UNCHANGED <<scanVars, fused, cliVars, tierVars, behaviorVars, callVars>>

----------------------------------------------------------------------------
(* Engine.AssessRisk called from several goroutines on one engine *)

\* The goroutines that call AssessRisk, each on its own entry
Callers == {1, 2}

\* The local variables of AssessRisk before the loop
NewFrame ==
    [Heuristics |-> <<>>, Reasons |-> <<>>, triggeredCount |-> 0,
     totalScore |-> FZero, totalConfidence |-> FZero]

\* FrameOf with one frame for all callers, as if the accumulators were
\* fields of the engine
FrameOfShared(c) == 1

\* The frame that holds the local variables of caller c's call: its own
FrameOf(c) == c

\* AssessRisk from the end of the loop on: score, confidence, level, sort
AssessResult(acc) ==
    LET score == IF acc.triggeredCount > 0
                 THEN FDiv(acc.totalScore, acc.totalConfidence)
                 ELSE FZero
        confidence == IF acc.triggeredCount > 0
                      THEN FMin(FDiv(acc.totalConfidence,
                                     FInt(acc.triggeredCount)), FOne)
                      ELSE FOne
    IN  [Level |-> scoreToRiskLevel(score),
         Score |-> score,
         Confidence |-> confidence,
         Reasons |-> acc.Reasons,
         Heuristics |-> SortSlice(acc.Heuristics)]

\* caller c: assessment := scanner.RiskAssessment{...}; var totalScore, ...
CallEnter(c) ==
    /\ callPc[c] = "call"
    /\ callFrame' = [callFrame EXCEPT ![FrameOf(c)] = NewFrame]
    /\ callIdx' = [callIdx EXCEPT ![c] = 1]
    /\ callPc' = [callPc EXCEPT ![c] = "loop"]
    /\ UNCHANGED <<scanVars, fused, riskVars, cliVars, tierVars, behaviorVars,
                   callVerdicts, callResult>>

\* caller c: one iteration of for _, h := range e.heuristics
CallIterate(c) ==
    /\ callPc[c] = "loop"
    /\ callIdx[c] <= Len(callVerdicts[c])
    /\ callFrame' = [callFrame EXCEPT ![FrameOf(c)] =
                        AssessLoop(fused, <<callVerdicts[c][callIdx[c]]>>, @)]
    /\ callIdx' = [callIdx EXCEPT ![c] = @ + 1]
    /\ UNCHANGED <<scanVars, fused, riskVars, cliVars, tierVars, behaviorVars,
                   callVerdicts, callPc, callResult>>

\* caller c: the loop is over; compute, sort and return assessment
CallReturn(c) ==
    /\ callPc[c] = "loop"
    /\ callIdx[c] > Len(callVerdicts[c])
    /\ callResult' = [callResult EXCEPT ![c] = AssessResult(callFrame[FrameOf(c)])]
    /\ callPc' = [callPc EXCEPT ![c] = "returned"]
    /\ UNCHANGED <<scanVars, fused, riskVars, cliVars, tierVars, behaviorVars,
                   callVerdicts, callIdx, callFrame>>

----------------------------------------------------------------------------
(* Orchestrator.RunScan *)

N == Len(scanners)

\* result := &ScanResult{...}; var allItems, allErrors, mu; if o.parallel
RunScanEntry ==
    /\ pc = "entry"
    /\ result' = [Items |-> <<>>, TotalItems |-> 0, RiskSummary |-> EmptyMap,
                  Errors |-> <<>>]
    /\ allItems' = <<>>
    /\ allErrors' = <<>>
    /\ mu' = 0
    /\ wg' = 0
    /\ idx' = 1
    /\ pc' = IF parallel THEN "spawn" ELSE "seq"
    /\ UNCHANGED <<scanners, gAppended, parallel, ctxDone, outcome, gpc, gItems, gErr,
                   calls, retErr,
                   fused, riskVars, cliVars, unitVars>>

\* Spawn of a goroutine that takes the mutex before it calls Scan
SpawnHoldingLock ==
    /\ pc = "spawn"
    /\ idx <= N
    /\ mu = 0
    /\ mu' = idx
    /\ wg' = wg + 1
    /\ gpc' = [gpc EXCEPT ![idx] = "scan"]
    /\ idx' = idx + 1
    /\ UNCHANGED <<scanners, gAppended, parallel, ctxDone, outcome, pc, gItems, gErr,
                   calls, allItems, allErrors, result, retErr,
                   fused, riskVars, cliVars, unitVars>>

\* concurrent mode: wg.Add(1); go func(s Scanner) {...}(scanner)
Spawn ==
    /\ pc = "spawn"
    /\ idx <= N
    /\ wg' = wg + 1
    /\ gpc' = [gpc EXCEPT ![idx] = "scan"]
    /\ idx' = idx + 1
    /\ UNCHANGED <<scanners, gAppended, parallel, ctxDone, outcome, pc, gItems, gErr,
                   calls, mu, allItems, allErrors, result, retErr,
                   fused, riskVars, cliVars, unitVars>>

\* GoScan that calls Scan a second time when the first call fails
GoScanRetries(g) ==
    /\ gpc[g] = "scan"
    /\ gItems' = [gItems EXCEPT ![g] = outcome[g].items]
    /\ gErr' = [gErr EXCEPT ![g] = outcome[g].err]
    /\ calls' = [calls EXCEPT ![g] = IF outcome[g].err # Nil THEN @ + 2 ELSE @ + 1]
    /\ gpc' = [gpc EXCEPT ![g] = "lock"]
    /\ UNCHANGED <<scanners, gAppended, parallel, ctxDone, outcome, pc, idx, mu, wg,
                   allItems, allErrors, result, retErr,
                   fused, riskVars, cliVars, unitVars>>

\* goroutine: items, err := s.Scan()
GoScan(g) ==
    /\ gpc[g] = "scan"
    /\ gItems' = [gItems EXCEPT ![g] = outcome[g].items]
    /\ gErr' = [gErr EXCEPT ![g] = outcome[g].err]
    /\ calls' = [calls EXCEPT ![g] = @ + 1]
    /\ gpc' = [gpc EXCEPT ![g] = "lock"]
    /\ UNCHANGED <<scanners, gAppended, parallel, ctxDone, outcome, pc, idx, mu, wg,
                   allItems, allErrors, result, retErr,
                   fused, riskVars, cliVars, unitVars>>

\* GoLock that does not wait for the mutex to be free
GoLockNoWait(g) ==
    /\ gpc[g] = "lock"
    /\ mu' = g
    /\ gpc' = [gpc EXCEPT ![g] = "append"]
    /\ UNCHANGED <<scanners, gAppended, parallel, ctxDone, outcome, pc, idx, gItems,
                   gErr, calls, wg, allItems, allErrors, result, retErr,
                   fused, riskVars, cliVars, unitVars>>

\* goroutine: mu.Lock()
GoLock(g) ==
    /\ gpc[g] = "lock"
    /\ mu = 0
    /\ mu' = g
    /\ gpc' = [gpc EXCEPT ![g] = "append"]
    /\ UNCHANGED <<scanners, gAppended, parallel, ctxDone, outcome, pc, idx, gItems,
                   gErr, calls, wg, allItems, allErrors, result, retErr,
                   fused, riskVars, cliVars, unitVars>>

RECURSIVE Interleave(_, _)
\* The elements of a and b taken in turn, a's first
Interleave(a, b) ==
    IF a = <<>> THEN b ELSE <<Head(a)>> \o Interleave(b, Tail(a))

\* GoEvalAppend that merges the probe's entries element by element into the
\* entries already there
GoEvalAppendInterleaved(g) ==
    /\ gpc[g] = "append"
    /\ gAppended' = [gAppended EXCEPT ![g] =
                        IF gErr[g] # Nil
                        THEN Append(allErrors, ScanError(scanners[g], gErr[g]))
                        ELSE Interleave(allItems, gItems[g])]
    /\ gpc' = [gpc EXCEPT ![g] = "store"]
    /\ UNCHANGED <<scanners, parallel, ctxDone, outcome, pc, idx, gItems,
                   gErr, calls, mu, wg, allItems, allErrors, result, retErr,
                   fused, riskVars, cliVars, unitVars>>

\* GoEvalAppend that appends the probe's entries last one first
GoEvalAppendReversed(g) ==
    /\ gpc[g] = "append"
    /\ gAppended' = [gAppended EXCEPT ![g] =
                        IF gErr[g] # Nil
                        THEN Append(allErrors, ScanError(scanners[g], gErr[g]))
                        ELSE allItems \o [k \in 1..Len(gItems[g]) |->
                                             gItems[g][Len(gItems[g]) + 1 - k]]]
    /\ gpc' = [gpc EXCEPT ![g] = "store"]
    /\ UNCHANGED <<scanners, parallel, ctxDone, outcome, pc, idx, gItems,
                   gErr, calls, mu, wg, allItems, allErrors, result, retErr,
                   fused, riskVars, cliVars, unitVars>>

\* goroutine: the right-hand side append(allErrors, ScanError{...}) or
\* append(allItems, items...) is evaluated
GoEvalAppend(g) ==
    /\ gpc[g] = "append"
    /\ gAppended' = [gAppended EXCEPT ![g] =
                        IF gErr[g] # Nil
                        THEN Append(allErrors, ScanError(scanners[g], gErr[g]))
                        ELSE allItems \o gItems[g]]
    /\ gpc' = [gpc EXCEPT ![g] = "store"]
    /\ UNCHANGED <<scanners, parallel, ctxDone, outcome, pc, idx, gItems,
                   gErr, calls, mu, wg, allItems, allErrors, result, retErr,
                   fused, riskVars, cliVars, unitVars>>

\* GoAppend that keeps the items of a failing probe as well
GoAppendKeepsItems(g) ==
    /\ gpc[g] = "store"
    /\ IF gErr[g] # Nil
       THEN /\ allErrors' = gAppended[g]
            /\ allItems' = allItems \o gItems[g]
       ELSE /\ allItems' = gAppended[g]
            /\ UNCHANGED allErrors
    /\ gpc' = [gpc EXCEPT ![g] = "unlock"]
    /\ UNCHANGED <<scanners, gAppended, parallel, ctxDone, outcome, pc, idx, gItems,
                   gErr, calls, mu, wg, result, retErr,
                   fused, riskVars, cliVars, unitVars>>

\* goroutine: if err != nil { allErrors = append(...) } else
\*            { allItems = append(allItems, items...) }: the assignment
GoAppend(g) ==
    /\ gpc[g] = "store"
    /\ IF gErr[g] # Nil
       THEN /\ allErrors' = gAppended[g]
            /\ UNCHANGED allItems
       ELSE /\ allItems' = gAppended[g]
            /\ UNCHANGED allErrors
    /\ gpc' = [gpc EXCEPT ![g] = "unlock"]
    /\ UNCHANGED <<scanners, gAppended, parallel, ctxDone, outcome, pc, idx, gItems,
                   gErr, calls, mu, wg, result, retErr,
                   fused, riskVars, cliVars, unitVars>>

\* GoUnlock that does not release the mutex
GoUnlockKeepsLock(g) ==
    /\ gpc[g] = "unlock"
    /\ gpc' = [gpc EXCEPT ![g] = "wgdone"]
    /\ UNCHANGED <<scanners, gAppended, parallel, ctxDone, outcome, pc, idx, gItems,
                   gErr, calls, mu, wg, allItems, allErrors, result, retErr,
                   fused, riskVars, cliVars, unitVars>>

\* goroutine: deferred mu.Unlock()
GoUnlock(g) ==
    /\ gpc[g] = "unlock"
    /\ mu' = 0
    /\ gpc' = [gpc EXCEPT ![g] = "wgdone"]
    /\ UNCHANGED <<scanners, gAppended, parallel, ctxDone, outcome, pc, idx, gItems,
                   gErr, calls, wg, allItems, allErrors, result, retErr,
                   fused, riskVars, cliVars, unitVars>>

\* goroutine: deferred wg.Done()
GoDone(g) ==
    /\ gpc[g] = "wgdone"
    /\ wg' = wg - 1
    /\ gpc' = [gpc EXCEPT ![g] = "finished"]
    /\ UNCHANGED <<scanners, gAppended, parallel, ctxDone, outcome, pc, idx, gItems,
                   gErr, calls, mu, allItems, allErrors, result, retErr,
                   fused, riskVars, cliVars, unitVars>>

\* go func(s Scanner) {...}(scanner): one step of the goroutine of probe h
GoroutineStep(h) ==
    \/ GoScan(h)
    \/ GoLock(h)
    \/ GoEvalAppend(h)
    \/ GoAppend(h)
    \/ GoUnlock(h)
    \/ GoDone(h)

\* WgWait without the wait: the loop is over and RunScan goes on
WgWaitNoBarrier ==
    /\ pc = "spawn"
    /\ idx > N
    /\ pc' = "summary"
    /\ UNCHANGED <<scanners, gAppended, parallel, ctxDone, outcome, idx, gpc, gItems,
                   gErr, calls, mu, wg, allItems, allErrors, result, retErr,
                   fused, riskVars, cliVars, unitVars>>

\* concurrent mode: the range loop is over and wg.Wait() returns
WgWait ==
    /\ pc = "spawn"
    /\ idx > N
    /\ wg = 0
    /\ pc' = "summary"
    /\ UNCHANGED <<scanners, gAppended, parallel, ctxDone, outcome, idx, gpc, gItems,
                   gErr, calls, mu, wg, allItems, allErrors, result, retErr,
                   fused, riskVars, cliVars, unitVars>>

\* sequential mode, the body of one iteration for probe p, on the lists
\* acc = [items, errors]: if err != nil { allErrors = append(...) } else
\* { allItems = append(allItems, items...) }
SeqAccumulate(acc, p) ==
    IF outcome[p].err # Nil
    THEN [acc EXCEPT !.errors = Append(@, ScanError(scanners[p], outcome[p].err))]
    ELSE [acc EXCEPT !.items = @ \o outcome[p].items]

RECURSIVE SequentialRun(_)
\* sequential mode, the lists after the first n iterations of the loop
SequentialRun(n) ==
    IF n = 0 THEN [items |-> <<>>, errors |-> <<>>]
    ELSE SeqAccumulate(SequentialRun(n - 1), n)

\* SeqScan with a loop that stops at the first failing probe
SeqScanStopAtError ==
    /\ pc = "seq"
    /\ idx <= N
    /\ calls' = [calls EXCEPT ![idx] = @ + 1]
    /\ LET acc == SeqAccumulate([items |-> allItems, errors |-> allErrors], idx)
       IN  allItems' = acc.items /\ allErrors' = acc.errors
    /\ idx' = IF outcome[idx].err # Nil THEN N + 1 ELSE idx + 1
    /\ UNCHANGED <<scanners, gAppended, parallel, ctxDone, outcome, pc, gpc, gItems,
                   gErr, mu, wg, result, retErr,
                   fused, riskVars, cliVars, unitVars>>

\* sequential mode, one iteration: items, err := scanner.Scan() and the body
SeqScan ==
    /\ pc = "seq"
    /\ idx <= N
    /\ calls' = [calls EXCEPT ![idx] = @ + 1]
    /\ LET acc == SeqAccumulate([items |-> allItems, errors |-> allErrors], idx)
       IN  allItems' = acc.items /\ allErrors' = acc.errors
    /\ idx' = idx + 1
    /\ UNCHANGED <<scanners, gAppended, parallel, ctxDone, outcome, pc, gpc, gItems,
                   gErr, mu, wg, result, retErr,
                   fused, riskVars, cliVars, unitVars>>

\* sequential mode: the range loop is over
SeqExit ==
    /\ pc = "seq"
    /\ idx > N
    /\ pc' = "summary"
    /\ UNCHANGED <<scanners, gAppended, parallel, ctxDone, outcome, idx, gpc, gItems,
                   gErr, calls, mu, wg, allItems, allErrors, result, retErr,
                   fused, riskVars, cliVars, unitVars>>

\* Finish that reports the probes' failures as the error of the call
FinishFailsOnProbeError ==
    /\ pc = "summary"
    /\ result' = [Items |-> allItems,
                  TotalItems |-> Len(allItems),
                  RiskSummary |-> RiskSummaryOf(result.RiskSummary, allItems),
                  Errors |-> allErrors]
    /\ retErr' = IF allErrors # <<>> THEN "scan failed" ELSE Nil
    /\ pc' = "returned"
    /\ UNCHANGED <<scanners, gAppended, parallel, ctxDone, outcome, idx, gpc, gItems,
                   gErr, calls, mu, wg, allItems, allErrors,
                   fused, riskVars, cliVars, unitVars>>

\* Finish that counts the ScanErrors in TotalItems as well
FinishCountsErrors ==
    /\ pc = "summary"
    /\ result' = [Items |-> allItems,
                  TotalItems |-> Len(allItems) + Len(allErrors),
                  RiskSummary |-> RiskSummaryOf(result.RiskSummary, allItems),
                  Errors |-> allErrors]
    /\ retErr' = Nil
    /\ pc' = "returned"
    /\ UNCHANGED <<scanners, gAppended, parallel, ctxDone, outcome, idx, gpc, gItems,
                   gErr, calls, mu, wg, allItems, allErrors,
                   fused, riskVars, cliVars, unitVars>>

\* the risk summary loop, result.Items/TotalItems/Errors, return result, nil
Finish ==
    /\ pc = "summary"
    /\ result' = [Items |-> allItems,
                  TotalItems |-> Len(allItems),
                  RiskSummary |-> RiskSummaryOf(result.RiskSummary, allItems),
                  Errors |-> allErrors]
    /\ retErr' = Nil
    /\ pc' = "returned"
    /\ UNCHANGED <<scanners, gAppended, parallel, ctxDone, outcome, idx, gpc, gItems,
                   gErr, calls, mu, wg, allItems, allErrors,
                   fused, riskVars, cliVars, unitVars>>

----------------------------------------------------------------------------
(* The scan command: runScan *)

\* What the four heuristics of runScan return for the entries of the model:
\* nothing triggers (each heuristic's initial verdict), or the signature
\* heuristic alone triggers with one of its verdicts (0.5, 0.8), (0.7, 0.8),
\* (0.9, 1.0).
CliUntriggered ==
    <<HeuristicResult(HeuristicNames[1], FALSE, FZero, FLit(80, 100),
                      DetailTexts[1]),
      HeuristicResult(HeuristicNames[2], FALSE, FZero, FLit(90, 100),
                      DetailTexts[2]),
      HeuristicResult(HeuristicNames[3], FALSE, FZero, FLit(85, 100),
                      DetailTexts[3]),
      HeuristicResult(HeuristicNames[4], FALSE, FZero, FLit(70, 100),
                      DetailTexts[4])>>

CliVerdictLists ==
    {CliUntriggered}
    \cup { [CliUntriggered EXCEPT ![1] =
               HeuristicResult(HeuristicNames[1], TRUE, FLit(v[1], 100),
                               FLit(v[2], 100), v[3])] :
           v \in {<<50, 80, "Binary has unknown signature type">>,
                  <<70, 80, "Binary is unsigned or has invalid signature">>,
                  <<90, 100, "Binary signed with revoked certificate">>} }

\* riskEngine.AssessRisk(&result.Items[i]) for the entries of the model, in
\* a build without and with fused multiply-add
CliRisksUnfused == { AssessRisk(FALSE, v) : v \in CliVerdictLists }
CliRisksFused == { AssessRisk(TRUE, v) : v \in CliVerdictLists }

\* TableFormatter.formatSummary: one line per level, most severe first, for
\* the levels whose count in RiskSummary is positive
SummaryLevels == <<RiskCritical, RiskHigh, RiskMedium, RiskLow, RiskInfo>>

formatSummary(res) ==
    IF res.TotalItems > 0
    THEN SelectSeq([i \in 1..Len(SummaryLevels) |->
                       <<SummaryLevels[i], MapGet(res.RiskSummary, SummaryLevels[i])>>],
                   LAMBDA line : line[2] > 0)
    ELSE <<>>

\* runScan up to result, err := orchestrator.RunScan(ctx)
MainCallRunScan ==
    /\ mainPc = "start"
    /\ pc = "idle"
    /\ pc' = "entry"
    /\ mainPc' = "scan"
    /\ UNCHANGED <<scanners, gAppended, parallel, ctxDone, outcome, idx, gpc, gItems,
                   gErr, calls, mu, wg, allItems, allErrors, result, retErr,
                   fused, riskVars, ai, output, exitCode, unitVars>>

\* if err != nil { return fmt.Errorf("scan failed: %w", err) }: main prints
\* the error and exits with status 1
MainScanReturned ==
    /\ mainPc = "scan"
    /\ pc = "returned"
    /\ IF retErr # Nil
       THEN mainPc' = "exited" /\ exitCode' = 1 /\ UNCHANGED ai
       ELSE mainPc' = "assess" /\ ai' = 1 /\ UNCHANGED exitCode
    /\ UNCHANGED <<scanVars, fused, riskVars, output, unitVars>>

\* for i := range result.Items { result.Items[i].Risk = AssessRisk(...) },
\* one iteration
MainAssess ==
    /\ mainPc = "assess"
    /\ ai <= Len(result.Items)
    /\ \E risk \in (IF fused THEN CliRisksFused ELSE CliRisksUnfused) :
          result' = [result EXCEPT !.Items[ai].Risk = risk]
    /\ ai' = ai + 1
    /\ UNCHANGED <<scanners, gAppended, parallel, ctxDone, outcome, pc, idx, gpc, gItems,
                   gErr, calls, mu, wg, allItems, allErrors, retErr,
                   fused, riskVars, mainPc, output, exitCode, unitVars>>

\* formatter.Format(result); fmt.Print(string(outputData))
MainFormat ==
    /\ mainPc = "assess"
    /\ ai > Len(result.Items)
    /\ output' = formatSummary(result)
    /\ mainPc' = "exit"
    /\ UNCHANGED <<scanVars, fused, riskVars, ai, exitCode, unitVars>>

\* the exit status: os.Exit(3), os.Exit(2), os.Exit(1) or return nil
MainExit ==
    /\ mainPc = "exit"
    /\ exitCode' = IF MapGet(result.RiskSummary, RiskCritical) > 0 THEN 3
                   ELSE IF MapGet(result.RiskSummary, RiskHigh) > 0 THEN 2
                   ELSE IF MapGet(result.RiskSummary, RiskMedium) > 0 THEN 1
                   ELSE 0
    /\ mainPc' = "exited"
    /\ UNCHANGED <<scanVars, fused, riskVars, ai, output, unitVars>>

----------------------------------------------------------------------------
(* Specifications *)

NotExited == -1

\* An orchestrator over n probes whose Scan() return at most max items.
InitOrchestrator(n, max) ==
    /\ scanners = [p \in 1..n |-> Mechanisms[p]]
    /\ outcome \in [1..n -> UNION {ScanOutcomes(p, max) : p \in 1..n}]
    /\ \A p \in 1..n : outcome[p] \in ScanOutcomes(p, max)
    /\ gpc = [p \in 1..n |-> "none"]
    /\ gItems = [p \in 1..n |-> <<>>]
    /\ gErr = [p \in 1..n |-> Nil]
    /\ gAppended = [p \in 1..n |-> <<>>]
    /\ calls = [p \in 1..n |-> 0]
    /\ parallel \in BOOLEAN
    /\ idx = 0
    /\ mu = 0
    /\ wg = 0
    /\ allItems = <<>>
    /\ allErrors = <<>>
    /\ result = NoResult
    /\ retErr = Nil

InitNoRisk ==
    /\ verdicts = <<>>
    /\ assessment = ZeroRisk
    /\ riskPc = "idle"

InitNoCli ==
    /\ mainPc = "none"
    /\ ai = 0
    /\ output = <<>>
    /\ exitCode = NotExited

InitNoTier ==
    /\ tierScores = <<>>
    /\ tierLevels = <<>>

InitNoBehavior ==
    /\ entry = NoEntry
    /\ now = ClockStart
    /\ analyzed = <<>>
    /\ assessed = <<>>
    /\ heuristics = <<>>

InitNoCalls ==
    /\ callVerdicts = <<>>
    /\ callPc = <<>>
    /\ callIdx = <<>>
    /\ callFrame = <<>>
    /\ callResult = <<>>

\* RunScan called on any probe collection, in either mode, with any ctx
Init ==
    /\ \E n \in 0..NumProbes : InitOrchestrator(n, MaxItems)
    /\ ctxDone \in BOOLEAN
    /\ pc = "entry"
    /\ fused = FALSE
    /\ InitNoRisk
    /\ InitNoCli
    /\ InitNoTier
    /\ InitNoBehavior
    /\ InitNoCalls

RunScanNext ==
    \/ RunScanEntry
    \/ Spawn
    \/ \E g \in DOMAIN gpc : GoScan(g)
    \/ \E g \in DOMAIN gpc : GoLock(g)
    \/ \E g \in DOMAIN gpc : GoEvalAppend(g)
    \/ \E g \in DOMAIN gpc : GoAppend(g)
    \/ \E g \in DOMAIN gpc : GoUnlock(g)
    \/ \E g \in DOMAIN gpc : GoDone(g)
    \/ WgWait
    \/ SeqScan
    \/ SeqExit
    \/ Finish

Next == RunScanNext

Spec == Init /\ [][Next]_vars

\* One step of the goroutine that called RunScan
RunScanStep ==
    \/ RunScanEntry
    \/ Spawn
    \/ WgWait
    \/ SeqScan
    \/ SeqExit
    \/ Finish

\* Scheduling: a goroutine that can run, the caller's or a probe's, is not
\* left waiting for ever, and every probe's Scan returns (GoScan, SeqScan)
Fairness ==
    /\ WF_vars(RunScanStep)
    /\ \A g \in 1..NumProbes : WF_vars(g \in DOMAIN gpc /\ GoroutineStep(g))

\* RunScan under that scheduling
SpecLive == Init /\ [][Next]_vars /\ Fairness

\* AssessRisk called on an entry for which the heuristics return any
\* verdicts of the grid
InitRisk ==
    /\ InitOrchestrator(0, 0)
    /\ parallel = FALSE
    /\ ctxDone = FALSE
    /\ pc = "idle"
    /\ fused \in BOOLEAN
    /\ \E n \in 0..MaxHeuristics :
          /\ verdicts \in [1..n -> UNION {VerdictGrid(h) : h \in 1..n}]
          /\ \A h \in 1..n : verdicts[h] \in VerdictGrid(h)
    /\ assessment = ZeroRisk
    /\ riskPc = "call"
    /\ InitNoCli
    /\ InitNoTier
    /\ InitNoBehavior
    /\ InitNoCalls

NextRisk == AssessRiskCall

SpecRisk == InitRisk /\ [][NextRisk]_vars

\* The Name() of the heuristics of an engine that has maxInsertion + 1
LargeEngineNames ==
    <<"heuristic_01", "heuristic_02", "heuristic_03", "heuristic_04",
      "heuristic_05", "heuristic_06", "heuristic_07", "heuristic_08",
      "heuristic_09", "heuristic_10", "heuristic_11", "heuristic_12",
      "heuristic_13">>

\* What a heuristic of that engine returns when it triggers: the score 0.5
\* or 0.9 with confidence 1.0; and when it does not: the score 0.0
LargeEngineTriggered ==
    { [Triggered |-> TRUE, Score |-> FLit(s, 100), Confidence |-> FOne,
       Details |-> "triggered"] : s \in {50, 90} }

LargeEngineUntriggered ==
    [Triggered |-> FALSE, Score |-> FZero, Confidence |-> FLit(80, 100),
     Details |-> ""]

\* AssessRisk called on an engine of maxInsertion + 1 heuristics, of which
\* at most MaxTriggered trigger
InitSort ==
    /\ InitOrchestrator(0, 0)
    /\ parallel = FALSE
    /\ ctxDone = FALSE
    /\ pc = "idle"
    /\ fused \in BOOLEAN
    /\ \E T \in { t \in SUBSET DOMAIN LargeEngineNames :
                      Cardinality(t) <= MaxTriggered } :
       \E v \in [T -> LargeEngineTriggered] :
          verdicts = [h \in DOMAIN LargeEngineNames |->
                        LET r == IF h \in T THEN v[h] ELSE LargeEngineUntriggered
                        IN  HeuristicResult(LargeEngineNames[h], r.Triggered,
                                            r.Score, r.Confidence, r.Details)]
    /\ assessment = ZeroRisk
    /\ riskPc = "call"
    /\ InitNoCli
    /\ InitNoTier
    /\ InitNoBehavior
    /\ InitNoCalls

NextSort == AssessRiskCall

SpecSort == InitSort /\ [][NextSort]_vars

\* The times at which the property list files were last modified: more than
\* 7 days, less than 7 days and less than 24 hours before ClockStart
ModTimes == {ClockStart - 200, ClockStart - 160, ClockStart - 20}

\* AssessRisk called twice, at any two times, on an entry the launchd probes
\* produce
InitBehavior ==
    /\ InitOrchestrator(0, 0)
    /\ parallel = FALSE
    /\ ctxDone = FALSE
    /\ pc = "idle"
    /\ fused = FALSE
    /\ InitNoRisk
    /\ InitNoCli
    /\ InitNoTier
    /\ \E pl \in LaunchdPlists, mech \in {"LaunchAgent", "LaunchDaemon"},
          modTime \in ModTimes :
          entry = parsePlist(pl, mech, modTime)
    /\ now = ClockStart
    /\ analyzed = <<>>
    /\ assessed = <<>>
    /\ heuristics = <<HeuristicNames[3]>>
    /\ InitNoCalls

NextBehavior ==
    \/ ClockTick
    \/ BehaviorAssessCall

SpecBehavior == InitBehavior /\ [][NextBehavior]_vars

\* AssessRisk called, with the four shipped heuristics, on an entry the
\* launchd probes produce
InitShipped ==
    /\ InitOrchestrator(0, 0)
    /\ parallel = FALSE
    /\ ctxDone = FALSE
    /\ pc = "idle"
    /\ fused \in BOOLEAN
    /\ verdicts = <<>>
    /\ assessment = ZeroRisk
    /\ riskPc = "call"
    /\ InitNoCli
    /\ InitNoTier
    /\ \E pl \in LaunchdPlists \cup NamedPlists,
          mech \in {"LaunchAgent", "LaunchDaemon"}, modTime \in ModTimes :
          entry = parsePlist(pl, mech, modTime)
    /\ now = ClockStart
    /\ analyzed = <<>>
    /\ assessed = <<>>
    /\ heuristics = HeuristicNames
    /\ InitNoCalls

NextShipped == ShippedAssessCall

SpecShipped == InitShipped /\ [][NextShipped]_vars

\* What heuristic h returns for an entry on which it triggers, and for one
\* on which it does not
CallTriggered ==
    << [Score |-> FLit(70, 100), Confidence |-> FLit(80, 100)],
       [Score |-> FLit(30, 100), Confidence |-> FLit(50, 100)],
       [Score |-> FLit(90, 100), Confidence |-> FOne],
       [Score |-> FLit(50, 100), Confidence |-> FLit(80, 100)] >>

CallUntriggered == [Score |-> FZero, Confidence |-> FLit(80, 100)]

\* The verdict lists an engine of n heuristics produces, entry by entry
CallVerdictLists(n) ==
    { [h \in 1..n |->
          IF h \in T
          THEN HeuristicResult(HeuristicNames[h], TRUE, CallTriggered[h].Score,
                               CallTriggered[h].Confidence, DetailTexts[h])
          ELSE HeuristicResult(HeuristicNames[h], FALSE, CallUntriggered.Score,
                               CallUntriggered.Confidence, "")] :
        T \in SUBSET (1..n) }

\* Every caller is about to call AssessRisk, each on its entry, on one
\* engine of at most MaxHeuristics heuristics
InitCalls ==
    /\ InitOrchestrator(0, 0)
    /\ parallel = FALSE
    /\ ctxDone = FALSE
    /\ pc = "idle"
    /\ fused \in BOOLEAN
    /\ InitNoRisk
    /\ InitNoCli
    /\ InitNoTier
    /\ InitNoBehavior
    /\ \E n \in 0..MaxHeuristics : callVerdicts \in [Callers -> CallVerdictLists(n)]
    /\ callPc = [c \in Callers |-> "call"]
    /\ callIdx = [c \in Callers |-> 0]
    /\ callFrame = [c \in Callers |-> NewFrame]
    /\ callResult = [c \in Callers |-> ZeroRisk]

NextCalls ==
    \/ \E c \in Callers : CallEnter(c)
    \/ \E c \in Callers : CallIterate(c)
    \/ \E c \in Callers : CallReturn(c)

SpecCalls == InitCalls /\ [][NextCalls]_vars

\* The float64 just below f, for f positive and not a power of two
FBelow(f) == [f EXCEPT !.m = BigSub(@, BigOne)]

\* The scores scoreToRiskLevel is called on: the twentieths from 0 to 1,
\* the float64 just below each threshold, a score above 1 and NaN
TierScoreGrid ==
    { FLit(k, 20) : k \in 0..20 }
    \cup { FBelow(t) : t \in {LowThreshold, MediumThreshold, HighThreshold,
                              CriticalThreshold} }
    \cup { FLit(3, 2), NaN }

\* scoreToRiskLevel called on two scores, one after the other
InitTier ==
    /\ InitOrchestrator(0, 0)
    /\ parallel = FALSE
    /\ ctxDone = FALSE
    /\ pc = "idle"
    /\ fused = FALSE
    /\ InitNoRisk
    /\ InitNoCli
    /\ tierScores \in TierScoreGrid \X TierScoreGrid
    /\ tierLevels = <<>>
    /\ InitNoBehavior
    /\ InitNoCalls

NextTier == ScoreToRiskLevelCall

SpecTier == InitTier /\ [][NextTier]_vars

\* the scan command: ctx is context.Background(), never cancelled
InitCLI ==
    /\ InitOrchestrator(NumProbes, CliMaxItems)
    /\ ctxDone = FALSE
    /\ pc = "idle"
    /\ fused \in BOOLEAN
    /\ InitNoRisk
    /\ mainPc = "start"
    /\ ai = 0
    /\ output = <<>>
    /\ exitCode = NotExited
    /\ InitNoTier
    /\ InitNoBehavior
    /\ InitNoCalls

NextCLI ==
    \/ MainCallRunScan
    \/ RunScanEntry
    \/ Spawn
    \/ \E g \in DOMAIN gpc : GoScan(g)
    \/ \E g \in DOMAIN gpc : GoLock(g)
    \/ \E g \in DOMAIN gpc : GoEvalAppend(g)
    \/ \E g \in DOMAIN gpc : GoAppend(g)
    \/ \E g \in DOMAIN gpc : GoUnlock(g)
    \/ \E g \in DOMAIN gpc : GoDone(g)
    \/ WgWait
    \/ SeqScan
    \/ SeqExit
    \/ Finish
    \/ MainScanReturned
    \/ MainAssess
    \/ MainFormat
    \/ MainExit

SpecCLI == InitCLI /\ [][NextCLI]_vars

----------------------------------------------------------------------------
(* Properties of RunScan (specification Spec) *)

Range(s) == { s[i] : i \in DOMAIN s }

\* The multiset of the elements of a sequence
BagOfSeq(s) == [x \in Range(s) |-> Cardinality({ i \in DOMAIN s : s[i] = x })]

\* The probes whose Scan() returns an error, and the others
Failed == { p \in DOMAIN outcome : outcome[p].err # Nil }
Succeeded == DOMAIN outcome \ Failed

\* The ScanErrors of the result that carry probe p's mechanism
ErrorsFor(p) ==
    { i \in DOMAIN result.Errors : result.Errors[i].Mechanism = scanners[p] }

RECURSIVE SucceededItemCount(_)
\* The number of entries returned by the succeeding probes among 1..n
SucceededItemCount(n) ==
    IF n = 0 THEN 0
    ELSE SucceededItemCount(n - 1)
         + (IF outcome[n].err = Nil THEN Len(outcome[n].items) ELSE 0)

\* C1 - Fault isolation: when one probe P returns an error and the others
\* succeed, the result RunScan returns holds every entry of every succeeding
\* probe and exactly one ScanError, the one for P; in sequential mode and in
\* concurrent mode under every interleaving.
C1_FaultIsolation ==
    (pc = "returned" /\ Cardinality(Failed) = 1) =>
        /\ \A q \in Succeeded : \A k \in DOMAIN outcome[q].items :
              outcome[q].items[k] \in Range(result.Items)
        /\ \A p \in Failed : Cardinality(ErrorsFor(p)) = 1
        /\ Len(result.Errors) = 1

\* A concurrent run returned with one probe failed and another's entries merged.
C1_Witness ==
    /\ pc = "returned"
    /\ parallel
    /\ Cardinality(Failed) = 1
    /\ \E q \in Succeeded : Len(outcome[q].items) > 0
    /\ Len(result.Items) > 0
    /\ Len(result.Errors) = 1

\* C2 - Mode equivalence: for the same probes and the same outcomes, what
\* concurrent mode returns has the same multiset of entries and the same
\* multiset of ScanErrors as the lists sequential mode builds, which are the
\* lists a sequential run returns.
C2_ModeEquivalence ==
    pc = "returned" =>
        IF parallel
        THEN /\ BagOfSeq(result.Items) = BagOfSeq(SequentialRun(N).items)
             /\ BagOfSeq(result.Errors) = BagOfSeq(SequentialRun(N).errors)
        ELSE /\ result.Items = SequentialRun(N).items
             /\ result.Errors = SequentialRun(N).errors

\* A concurrent run returned its entries in another order than sequential mode.
C2_Witness ==
    /\ pc = "returned"
    /\ parallel
    /\ result.Items # SequentialRun(N).items
    /\ Len(result.Items) >= 2

\* C3 - Probe failures are no call error: RunScan returns a nil error and a
\* result whatever the probes return; when every probe fails the result has
\* no entries, TotalItems 0 and exactly one ScanError per probe.
C3_NoCallError ==
    pc = "returned" =>
        /\ retErr = Nil
        /\ Failed = DOMAIN outcome =>
              /\ result.Items = <<>>
              /\ result.TotalItems = 0
              /\ Len(result.Errors) = N
              /\ \A p \in DOMAIN outcome : Cardinality(ErrorsFor(p)) = 1

\* A run of at least two probes returned after every one of them failed.
C3_Witness ==
    /\ pc = "returned"
    /\ N >= 2
    /\ Failed = DOMAIN outcome
    /\ Len(result.Errors) = N

\* C4 - Join barrier: in concurrent mode, from the moment RunScan reads the
\* accumulated lists until it has returned, every probe goroutine has
\* finished its one Scan call, its append, its unlock and its wg.Done, so the
\* lists are complete.
C4_JoinBarrier ==
    (parallel /\ pc \in {"summary", "returned"}) =>
        /\ \A g \in DOMAIN gpc : gpc[g] = "finished" /\ calls[g] = 1
        /\ mu = 0
        /\ wg = 0
        /\ Len(allItems) = SucceededItemCount(N)
        /\ Len(allErrors) = Cardinality(Failed)
        /\ pc = "returned" => result.Items = allItems /\ result.Errors = allErrors

\* A concurrent run over two probes returned with entries merged.
C4_Witness ==
    /\ parallel
    /\ pc = "returned"
    /\ N >= 2
    /\ Len(result.Items) >= 2
    /\ \A g \in DOMAIN gpc : gpc[g] = "finished"

\* C5 - Orchestrator-level failure: when ctx is already cancelled before any
\* probe runs, RunScan returns an error and invokes no probe.
C5_CancelledRunFails ==
    (ctxDone /\ pc = "returned") =>
        /\ retErr # Nil
        /\ \A p \in DOMAIN calls : calls[p] = 0

\* C6 - Partial results survive: the entries a probe returns together with
\* an error are in the Items of the result.
C6_PartialEntriesKept ==
    pc = "returned" =>
        \A p \in Failed : \A k \in DOMAIN outcome[p].items :
            outcome[p].items[k] \in Range(result.Items)

\* C7 - The result RunScan returns has an empty RiskSummary (no keys).
C7_SummaryEmptyAtReturn ==
    pc = "returned" => DOMAIN result.RiskSummary = {}

----------------------------------------------------------------------------
(* Properties of the scan command (specification SpecCLI) *)

\* The entries of the result whose assessed tier is t
ItemsAtLevel(t) ==
    { i \in DOMAIN result.Items : result.Items[i].Risk.Level = t }

\* C8 - Tier summary after scoring: once every entry is assessed and the
\* result is rendered and the exit status computed, RiskSummary[t] is the
\* number of entries assessed at tier t, for every tier t.
C8_SummaryCountsTiers ==
    mainPc \in {"exit", "exited"} =>
        \A t \in RiskLevels :
            MapGet(result.RiskSummary, t) = Cardinality(ItemsAtLevel(t))

\* C9 - Exit status: the command exits with 3 if an entry was assessed
\* Critical, else 2 if one was assessed High, else 1 if one was assessed
\* Medium, else 0.
C9_ExitStatusBySeverity ==
    mainPc = "exited" =>
        exitCode = IF ItemsAtLevel(RiskCritical) # {} THEN 3
                   ELSE IF ItemsAtLevel(RiskHigh) # {} THEN 2
                   ELSE IF ItemsAtLevel(RiskMedium) # {} THEN 1
                   ELSE 0

----------------------------------------------------------------------------
(* Properties of AssessRisk (specification SpecRisk) *)

\* Exact arithmetic on the values m * 2^e of finite float64s, without
\* rounding: [m, e] with m any natural number.
Exact(f) == [m |-> f.m, e |-> f.e]
ExactZero == [m |-> <<>>, e |-> 0]
ExactMul(a, b) == [m |-> BigMul(a.m, b.m), e |-> a.e + b.e]
ExactScale(a, k) == [m |-> BigMul(a.m, BigFromInt(k)), e |-> a.e]
ExactShift(a, n) == [m |-> a.m, e |-> a.e + n]

ExactAdd(a, b) ==
    LET e == IF a.e < b.e THEN a.e ELSE b.e
    IN  [m |-> BigAdd(BigShl(a.m, a.e - e), BigShl(b.m, b.e - e)), e |-> e]

\* -1, 0, 1 as a < b, a = b, a > b
ExactCmp(a, b) ==
    LET e == IF a.e < b.e THEN a.e ELSE b.e
    IN  BigCmp(BigShl(a.m, a.e - e), BigShl(b.m, b.e - e))

\* |a - b|
ExactAbsDiff(a, b) ==
    LET e == IF a.e < b.e THEN a.e ELSE b.e
        x == BigShl(a.m, a.e - e)
        y == BigShl(b.m, b.e - e)
    IN  [m |-> IF BigCmp(x, y) >= 0 THEN BigSub(x, y) ELSE BigSub(y, x), e |-> e]

TriggeredVerdicts == { i \in DOMAIN verdicts : verdicts[i].Triggered }

RECURSIVE WeightedScoreSum(_)
\* The exact sum of score_i * confidence_i over the triggered verdicts 1..n
WeightedScoreSum(n) ==
    IF n = 0 THEN ExactZero
    ELSE IF verdicts[n].Triggered
    THEN ExactAdd(WeightedScoreSum(n - 1),
                  ExactMul(Exact(verdicts[n].Score), Exact(verdicts[n].Confidence)))
    ELSE WeightedScoreSum(n - 1)

RECURSIVE ConfidenceSum(_)
\* The exact sum of confidence_i over the triggered verdicts 1..n
ConfidenceSum(n) ==
    IF n = 0 THEN ExactZero
    ELSE IF verdicts[n].Triggered
    THEN ExactAdd(ConfidenceSum(n - 1), Exact(verdicts[n].Confidence))
    ELSE ConfidenceSum(n - 1)

NumVerdicts == Len(verdicts)

\* The verdicts are (0.9, 0.5) and (0.3, 1.0), both triggered
TwoTriggerExample ==
    /\ NumVerdicts = 2
    /\ verdicts[1].Triggered /\ verdicts[2].Triggered
    /\ verdicts[1].Score = FLit(90, 100) /\ verdicts[1].Confidence = FLit(50, 100)
    /\ verdicts[2].Score = FLit(30, 100) /\ verdicts[2].Confidence = FLit(100, 100)

RECURSIVE TriggeredConfidenceTotal(_)
TriggeredConfidenceTotal(n) ==
    IF n = 0 THEN FZero
    ELSE IF verdicts[n].Triggered
    THEN FAdd(TriggeredConfidenceTotal(n - 1), verdicts[n].Confidence)
    ELSE TriggeredConfidenceTotal(n - 1)

\* The natural number k as an exact value
ExactNat(k) == [m |-> BigFromInt(k), e |-> 0]

\* C11 - Confidence aggregation: when n >= 1 heuristics trigger, Confidence
\* is min(sum / n, 1.0) in float64, where sum adds the confidences of the
\* triggered verdicts only: it is 1.0 when their exact mean is at least 1,
\* and else within the relative distance n * 2^-52 of their exact mean.
C11_ConfidenceIsClampedMean ==
    (riskPc = "done" /\ TriggeredVerdicts # {}) =>
        LET n == Cardinality(TriggeredVerdicts)
            sum == ConfidenceSum(NumVerdicts)
        IN  /\ assessment.Confidence =
                  FMin(FDiv(TriggeredConfidenceTotal(NumVerdicts), FInt(n)), FOne)
            /\ assessment.Confidence.cls = "num"
            /\ IF ExactCmp(sum, ExactNat(n)) >= 0
               THEN assessment.Confidence = FOne
               ELSE ExactCmp(
                        ExactShift(
                            ExactAbsDiff(
                                ExactScale(Exact(assessment.Confidence), n), sum),
                            52),
                        ExactScale(sum, n)) <= 0

\* A triggered verdict and a non-triggered one of another confidence were
\* aggregated: the confidence is the triggered one's.
C11_Witness ==
    /\ riskPc = "done"
    /\ \E i \in TriggeredVerdicts : \E j \in DOMAIN verdicts \ TriggeredVerdicts :
          /\ TriggeredVerdicts = {i}
          /\ verdicts[i].Confidence # verdicts[j].Confidence
          /\ assessment.Confidence = verdicts[i].Confidence

\* C12 - No-signal case: when no heuristic triggers (an engine without
\* heuristics included), the assessment is score 0.0, tier Info, confidence
\* 1.0 and an empty reasons list, whatever the non-triggered verdicts carry.
C12_NoSignal ==
    (riskPc = "done" /\ TriggeredVerdicts = {}) =>
        /\ assessment.Score = FZero
        /\ assessment.Level = RiskInfo
        /\ assessment.Confidence = FOne
        /\ assessment.Reasons = <<>>

\* Heuristics ran, none triggered, and one of the verdicts carries a score
\* and a confidence that are neither 0 nor 1.
C12_Witness ==
    /\ riskPc = "done"
    /\ NumVerdicts >= 1
    /\ TriggeredVerdicts = {}
    /\ \E i \in DOMAIN verdicts :
          /\ verdicts[i].Score # FZero
          /\ verdicts[i].Confidence \notin {FZero, FOne}
    /\ assessment.Level = RiskInfo

\* The tiers in increasing order, and the float64 lower bounds of the four
\* tiers above Info
TierOrder == <<RiskInfo, RiskLow, RiskMedium, RiskHigh, RiskCritical>>
TierBounds == <<FLit(2, 10), FLit(4, 10), FLit(6, 10), FLit(8, 10)>>

\* The finite score f is at least the bound b, compared as exact values
AtLeast(f, b) == f.cls = "num" /\ ExactCmp(Exact(f), Exact(b)) >= 0

\* The tier of score f under the fixed thresholds: as many tiers above Info
\* as there are bounds that f reaches
TierOf(f) == TierOrder[1 + Cardinality({ k \in 1..4 : AtLeast(f, TierBounds[k]) })]

\* C13 - Tier classification: the Level of every assessment AssessRisk
\* returns is the classification of its Score: >= 0.8 Critical, >= 0.6
\* High, >= 0.4 Medium, >= 0.2 Low, otherwise Info; a score exactly 0.2,
\* 0.4, 0.6, 0.8 is Low, Medium, High, Critical.
C13_LevelClassifiesScore ==
    riskPc = "done" =>
        /\ assessment.Level = TierOf(assessment.Score)
        /\ \A k \in 1..4 :
              assessment.Score = TierBounds[k] => assessment.Level = TierOrder[k + 1]

\* An assessment whose score is exactly 0.6 came out High.
C13_Witness ==
    /\ riskPc = "done"
    /\ assessment.Score = FLit(6, 10)
    /\ assessment.Level = RiskHigh

----------------------------------------------------------------------------
(* Properties of scoreToRiskLevel (specification SpecTier) *)

\* The position of tier t in the order Info < Low < Medium < High < Critical
TierRank(t) == CHOOSE k \in DOMAIN TierOrder : TierOrder[k] = t

\* C14 - Tier monotonicity: for all scores s1 < s2, the tier of s1 is at
\* most the tier of s2 in the order Info < Low < Medium < High < Critical.
C14_TierMonotone ==
    (/\ Len(tierLevels) = 2
     /\ tierScores[1].cls = "num" /\ tierScores[2].cls = "num"
     /\ ExactCmp(Exact(tierScores[1]), Exact(tierScores[2])) < 0) =>
        TierRank(tierLevels[1]) <= TierRank(tierLevels[2])

\* The float64 just below 0.6 and 0.6 itself were classified: Medium, High.
C14_Witness ==
    /\ Len(tierLevels) = 2
    /\ tierScores[1] = FBelow(HighThreshold)
    /\ tierScores[2] = HighThreshold
    /\ tierLevels = <<RiskMedium, RiskHigh>>

----------------------------------------------------------------------------
(* Properties of the verdict order (specifications SpecRisk and SpecSort) *)

\* The place, in the verdict list of the assessment, of the verdict of the
\* heuristic executed h-th (the heuristics of an engine have distinct names)
PlaceOf(h) ==
    CHOOSE k \in DOMAIN assessment.Heuristics :
        assessment.Heuristics[k].Name = verdicts[h].Name

\* C15 - Stable ordering: in the verdict list AssessRisk returns, two
\* verdicts of equal score are in the order in which their heuristics were
\* executed.
C15_StableOrdering ==
    riskPc = "done" =>
        \A i, j \in DOMAIN verdicts :
            (i < j /\ verdicts[i].Score = verdicts[j].Score) =>
                PlaceOf(i) < PlaceOf(j)

\* The float64 f is a number of [0, 1] (the model has no negative numbers)
InUnitInterval(f) == f.cls = "num" /\ ExactCmp(Exact(f), ExactNat(1)) <= 0

\* C17 - Range invariant: when every verdict has its score and its
\* confidence in [0, 1], the assessment has its score and its confidence in
\* [0, 1], also when every triggered verdict has confidence 0.
C17_ScoreAndConfidenceInRange ==
    (/\ riskPc = "done"
     /\ \A i \in DOMAIN verdicts :
           InUnitInterval(verdicts[i].Score)
           /\ InUnitInterval(verdicts[i].Confidence)) =>
        /\ InUnitInterval(assessment.Score)
        /\ InUnitInterval(assessment.Confidence)

----------------------------------------------------------------------------
(* Properties of the heuristics (specification SpecBehavior) *)

\* C16 - Determinism: two calls to AssessRisk on the same entry with the
\* same heuristics return the same RiskAssessment.
C16_SameAssessmentTwice ==
    (Len(assessed) = 2 /\ ~assessed[1].panicked /\ ~assessed[2].panicked) =>
        assessed[1].risk = assessed[2].risk

\* C18 - Heuristics must not fail: BehaviorHeuristic.Analyze returns a
\* verdict for every entry a probe produces, a LaunchAgent entry with
\* RunAtLoad and KeepAlive set, not Disabled, and values in RawData that are
\* no byte slices included.
C18_AnalyzeReturnsVerdict ==
    \A k \in DOMAIN analyzed : ~analyzed[k].panicked

----------------------------------------------------------------------------
(* Properties of concurrent calls of AssessRisk (specification SpecCalls) *)

\* What AssessRisk returns when it runs alone, for each build and each
\* verdict list
AloneResults ==
    { [fma |-> f, verdicts |-> vs, risk |-> AssessRisk(f, vs)] :
        f \in BOOLEAN,
        vs \in UNION { CallVerdictLists(n) : n \in 0..MaxHeuristics } }

AloneResult(vs) ==
    (CHOOSE a \in AloneResults : a.fma = fused /\ a.verdicts = vs).risk

\* C19 - Concurrent scoring is safe: every AssessRisk call that ran
\* concurrently with calls on other entries against the same engine returns
\* the assessment it returns when run alone.
C19_ConcurrentCallsAsAlone ==
    \A c \in DOMAIN callPc :
        callPc[c] = "returned" => callResult[c] = AloneResult(callVerdicts[c])

\* Both calls returned, on entries with different verdicts of which some
\* triggered, and the calls differ in what they return.
C19_Witness ==
    /\ callPc # <<>>
    /\ \A c \in DOMAIN callPc : callPc[c] = "returned"
    /\ \E c, d \in DOMAIN callPc :
          /\ callVerdicts[c] # callVerdicts[d]
          /\ callResult[c].Score # callResult[d].Score
          /\ callResult[c].Reasons # <<>>
          /\ callResult[d].Reasons # <<>>

----------------------------------------------------------------------------
(* Properties of the accumulation in concurrent mode (specification Spec) *)

\* The goroutines between mu.Lock() and mu.Unlock(), and those whose append
\* is assigned
InCriticalSection == { g \in DOMAIN gpc : gpc[g] \in {"append", "store", "unlock"} }
HasAppended == { g \in DOMAIN gpc : gpc[g] \in {"unlock", "wgdone", "finished"} }

RECURSIVE AppendedItemCount(_)
\* The number of entries the goroutines 1..n have appended
AppendedItemCount(n) ==
    IF n = 0 THEN 0
    ELSE AppendedItemCount(n - 1)
         + (IF n \in HasAppended /\ gErr[n] = Nil THEN Len(gItems[n]) ELSE 0)

\* C20 - Mutual exclusion of accumulation: in concurrent mode a goroutine
\* appends to the shared lists only while it holds the mutex, so at most one
\* goroutine is appending at any time, and no append is lost: the lists
\* hold what every goroutine that has appended put there.
C20_AppendsUnderMutex ==
    parallel =>
        /\ \A g \in InCriticalSection : mu = g
        /\ Cardinality(InCriticalSection) <= 1
        /\ \A g \in HasAppended :
              IF gErr[g] # Nil
              THEN ScanError(scanners[g], gErr[g]) \in Range(allErrors)
              ELSE Range(gItems[g]) \subseteq Range(allItems)
        /\ Len(allItems) = AppendedItemCount(Len(gpc))
        /\ Len(allErrors) = Cardinality({ g \in HasAppended : gErr[g] # Nil })

\* A goroutine that holds the mutex is about to assign its append while
\* another one, which also has entries to append, waits for the mutex.
C20_Witness ==
    \E g, h \in DOMAIN gpc :
        /\ g # h
        /\ gpc[g] = "store"
        /\ mu = g
        /\ gpc[h] = "lock"
        /\ gItems[g] # <<>>
        /\ gItems[h] # <<>>

----------------------------------------------------------------------------
(* Properties of the probes' execution in concurrent mode (specification Spec) *)

\* C21 - The lock is never held across probe execution: in concurrent mode
\* a goroutine whose Scan has not returned does not hold the mutex, and while
\* it stays inside Scan every other goroutine can go on (its Scan can return,
\* it can take the mutex or the holder of the mutex can go on, it can append,
\* unlock and signal), the orchestrator can start the remaining goroutines,
\* and the only place the orchestrator waits is wg.Wait().
C21_LockNotHeldAcrossScan ==
    parallel =>
        \A g \in DOMAIN gpc :
            gpc[g] = "scan" =>
                /\ mu # g
                /\ \A h \in DOMAIN gpc \ {g} :
                      /\ gpc[h] = "scan" => ENABLED GoScan(h)
                      /\ gpc[h] = "lock" =>
                            \/ ENABLED GoLock(h)
                            \/ mu \notin {0, g, h} /\ ENABLED GoroutineStep(mu)
                      /\ gpc[h] \in {"append", "store", "unlock", "wgdone"} =>
                            ENABLED GoroutineStep(h)
                /\ pc = "spawn"
                /\ idx <= N => ENABLED Spawn
                /\ idx > N => ~ENABLED WgWait

\* One probe is still inside Scan, another one has returned entries, appended
\* them and finished, and the orchestrator waits at the barrier.
C21_Witness ==
    /\ parallel
    /\ pc = "spawn"
    /\ idx > N
    /\ \E g, h \in DOMAIN gpc :
          /\ g # h
          /\ gpc[g] = "scan"
          /\ gpc[h] = "finished"
          /\ gItems[h] # <<>>
          /\ allItems = gItems[h]

----------------------------------------------------------------------------
(* Properties of the merged lists (specification Spec) *)

\* The probe an entry came from: probe p builds the entries with ID <<p, k>>
ProbeOf(item) == item.ID[1]

\* The entries of a list that came from probe p, in the order of the list
ItemsFrom(items, p) ==
    LET FromP(item) == ProbeOf(item) = p
    IN  SelectSeq(items, FromP)

\* C22 - Per-probe order is preserved through merging: in the result RunScan
\* returns, the entries that came from a succeeding probe are, in that order,
\* the list the probe's Scan returned; in sequential mode and in concurrent
\* mode under every interleaving.
C22_PerProbeOrder ==
    pc = "returned" =>
        \A p \in Succeeded : ItemsFrom(result.Items, p) = outcome[p].items

\* A concurrent run returned the entries of two probes, two entries each,
\* the second probe's entries first.
C22_Witness ==
    /\ pc = "returned"
    /\ parallel
    /\ N >= 2
    /\ \A p \in 1..2 : p \in Succeeded /\ Len(outcome[p].items) >= 2
    /\ ProbeOf(result.Items[1]) = 2

\* C23 - One ScanError per failing probe, one Scan call per probe: in the
\* result RunScan returns, every failing probe has exactly one ScanError, with
\* the probe's Type() as Mechanism and the probe's error text as Error, there
\* is no other ScanError, and every probe's Scan has been called exactly once;
\* in both modes.
C23_OneErrorOneCall ==
    pc = "returned" =>
        /\ \A p \in DOMAIN outcome : calls[p] = 1
        /\ \A p \in Failed :
              /\ Cardinality(ErrorsFor(p)) = 1
              /\ \A i \in ErrorsFor(p) :
                    result.Errors[i] = [Mechanism |-> scanners[p],
                                        Error |-> outcome[p].err]
        /\ \A p \in Succeeded : ErrorsFor(p) = {}
        /\ Len(result.Errors) = Cardinality(Failed)

\* A run returned after one probe failed and another one succeeded, each of
\* them called once.
C23_Witness ==
    /\ pc = "returned"
    /\ Failed # {}
    /\ Succeeded # {}
    /\ \A p \in DOMAIN outcome : calls[p] = 1
    /\ Len(result.Errors) = 1

----------------------------------------------------------------------------
(* Properties of the lists of the assessment (specifications SpecSort and
   SpecRisk) *)

\* C24 - The verdict list is complete and sorted: the Heuristics list that
\* AssessRisk returns has one verdict per configured heuristic, triggered or
\* not, is a permutation of the verdicts the heuristics returned, and its
\* scores never increase along the list.
C24_VerdictsCompleteAndSorted ==
    riskPc = "done" =>
        LET hs == assessment.Heuristics
        IN  /\ Len(hs) = Len(verdicts)
            /\ BagOfSeq(hs) = BagOfSeq(verdicts)
            /\ \A h \in DOMAIN verdicts :
                  Cardinality({ i \in DOMAIN hs : hs[i].Name = verdicts[h].Name }) = 1
            /\ \A i, j \in DOMAIN hs :
                  i < j => FGeq(hs[i].Score, hs[j].Score)

\* AssessRisk returned the verdicts of thirteen heuristics in another order
\* than they ran in: two triggered with different scores, the lower one
\* first, among verdicts that did not trigger.
C24_Witness ==
    /\ riskPc = "done"
    /\ Len(verdicts) > maxInsertion
    /\ assessment.Heuristics # verdicts
    /\ \E i, j \in DOMAIN verdicts :
          /\ 1 < i /\ i < j
          /\ verdicts[i].Triggered /\ verdicts[j].Triggered
          /\ FGt(verdicts[j].Score, verdicts[i].Score)
          /\ assessment.Heuristics[1] = verdicts[j]
          /\ assessment.Heuristics[2] = verdicts[i]

\* The Details of the triggered verdicts of vs, in the order of vs
TriggeredDetails(vs) ==
    LET triggered == SelectSeq(vs, LAMBDA r : r.Triggered)
    IN  [k \in DOMAIN triggered |-> triggered[k].Details]

\* C25 - The reasons list: the Reasons that AssessRisk returns are the
\* explanation strings of the triggered verdicts, one per triggered verdict
\* and none for the others, in the order the heuristics ran, which is not the
\* order of the sorted verdict list.
C25_ReasonsInExecutionOrder ==
    riskPc = "done" =>
        /\ assessment.Reasons = TriggeredDetails(verdicts)
        /\ Len(assessment.Reasons) =
              Cardinality({ h \in DOMAIN verdicts : verdicts[h].Triggered })

\* AssessRisk returned after two heuristics triggered, the second with the
\* higher score: the sorted verdict list starts with the second verdict, the
\* reasons start with the first one's explanation.
C25_Witness ==
    /\ riskPc = "done"
    /\ Len(verdicts) = 2
    /\ verdicts[1].Triggered /\ verdicts[2].Triggered
    /\ FGt(verdicts[2].Score, verdicts[1].Score)
    /\ assessment.Heuristics[1] = verdicts[2]
    /\ assessment.Reasons = <<verdicts[1].Details, verdicts[2].Details>>
    /\ verdicts[1].Details # verdicts[2].Details

----------------------------------------------------------------------------
(* Frame of AssessRisk (specification SpecBehavior) *)

\* C26 - AssessRisk leaves its input unchanged: a call of AssessRisk changes
\* no field of the entry, its Risk field and its RawData map included, and
\* does not change the engine's heuristic collection; the assessment is
\* returned and the entry's Risk field stays as the probe left it.
C26_AssessRiskLeavesInput ==
    /\ [](entry.Risk = ZeroRisk)
    /\ [][assessed' # assessed =>
             (entry' = entry /\ heuristics' = heuristics)]_vars

\* AssessRisk returned a Medium assessment for an entry that has a
\* StartInterval in RawData, and the entry's Risk field is still the zero
\* value.
C26_Witness ==
    /\ assessed # <<>>
    /\ ~assessed[1].panicked
    /\ assessed[1].risk.Level = RiskMedium
    /\ "StartInterval" \in DOMAIN entry.RawData
    /\ entry.Risk = ZeroRisk
    /\ heuristics = <<"suspicious_behavior">>

----------------------------------------------------------------------------
(* Further properties of the result of RunScan (specification Spec) *)

\* C27 - TotalItems: in every result RunScan returns, TotalItems is the
\* number of entries in Items, which is the sum of the lengths of the lists
\* the succeeding probes returned.
C27_TotalItemsIsEntryCount ==
    pc = "returned" =>
        /\ result.TotalItems = Len(result.Items)
        /\ Len(result.Items) = SucceededItemCount(N)

\* A run returned after one probe succeeded with two entries and another one
\* failed with entries found so far.
C27_Witness ==
    /\ pc = "returned"
    /\ result.TotalItems = 2
    /\ Len(result.Errors) = 1
    /\ \E p \in Succeeded : Len(outcome[p].items) = 2
    /\ \E p \in Failed : Len(outcome[p].items) > 0

----------------------------------------------------------------------------
(* Termination of RunScan (specification SpecLive) *)

\* C28 - Termination without deadlock: when every probe's Scan returns,
\* RunScan returns, in sequential and in concurrent mode; in concurrent mode
\* every goroutine that waits for the mutex gets it, every goroutine that
\* holds it releases it and signals the wait group, and the barrier is
\* passed.
C28_RunScanTerminates ==
    /\ <>(pc = "returned")
    /\ \A g \in 1..NumProbes :
          /\ (g \in DOMAIN gpc /\ gpc[g] = "lock") ~> (mu = g)
          /\ (mu = g) ~> (g \in DOMAIN gpc /\ mu # g /\ gpc[g] = "finished")
    /\ (parallel /\ pc = "spawn") ~> (pc = "summary" /\ wg = 0 /\ mu = 0)

\* A concurrent run over the largest probe collection returned, some probes
\* having failed and some succeeded, with the mutex free and the wait group
\* at zero.
C28_Witness ==
    /\ pc = "returned"
    /\ parallel
    /\ N = NumProbes
    /\ Failed # {}
    /\ Succeeded # {}
    /\ mu = 0
    /\ wg = 0

----------------------------------------------------------------------------
(* Order of the merged lists (specification Spec) *)

\* The probe a ScanError is about
ProbeOfError(e) == CHOOSE p \in DOMAIN scanners : scanners[p] = e.Mechanism

\* C29 - The merged order is block-wise: in the result RunScan returns, the
\* entries of each succeeding probe are one contiguous block of Items, in
\* either mode (in concurrent mode only the order of the blocks depends on the
\* interleaving); in sequential mode the blocks, and the ScanErrors, are in
\* the order of the probe collection.
C29_BlockwiseMerge ==
    pc = "returned" =>
        /\ \A i, j, k \in DOMAIN result.Items :
              (i < j /\ j < k
                 /\ ProbeOf(result.Items[i]) = ProbeOf(result.Items[k]))
              => ProbeOf(result.Items[j]) = ProbeOf(result.Items[i])
        /\ ~parallel =>
              /\ \A i, j \in DOMAIN result.Items :
                    i < j => ProbeOf(result.Items[i]) <= ProbeOf(result.Items[j])
              /\ \A i, j \in DOMAIN result.Errors :
                    i < j => ProbeOfError(result.Errors[i])
                               < ProbeOfError(result.Errors[j])

\* A concurrent run returned the block of the second probe followed by the
\* block of the first, two entries each.
C29_Witness ==
    /\ pc = "returned"
    /\ parallel
    /\ N >= 2
    /\ Len(outcome[1].items) = 2
    /\ Len(outcome[2].items) = 2
    /\ result.Items = outcome[2].items \o outcome[1].items

----------------------------------------------------------------------------
(* The verdicts of the shipped heuristics (specification SpecShipped) *)

\* The float64 f is a number of (0, 1]
InUnitIntervalAboveZero(f) == InUnitInterval(f) /\ f.m # <<>>

\* Every verdict the four heuristics returned has its score in [0, 1] and its
\* confidence in (0, 1], and score 0 when it did not trigger
ShippedVerdictsInRange ==
    \A h \in DOMAIN verdicts :
        /\ InUnitInterval(verdicts[h].Score)
        /\ InUnitIntervalAboveZero(verdicts[h].Confidence)
        /\ ~verdicts[h].Triggered => verdicts[h].Score = FZero

\* C30 - With the four shipped heuristics the aggregation is well defined:
\* every verdict they return has its score in [0, 1] and its confidence in
\* (0, 1], every verdict that did not trigger has score 0, and whenever one
\* of them triggers the summed confidence is above 0 and the score of the
\* assessment lies between the smallest and the largest triggered score.
C30_ShippedAggregationInRange ==
    riskPc = "done" =>
        /\ ShippedVerdictsInRange
        /\ TriggeredVerdicts # {} =>
              /\ FGt(TriggeredConfidenceTotal(NumVerdicts), FZero)
              /\ \E i \in TriggeredVerdicts :
                    FGeq(assessment.Score, verdicts[i].Score)
              /\ \E i \in TriggeredVerdicts :
                    FGeq(verdicts[i].Score, assessment.Score)


====
